---- MODULE Spec2Model ----
(***************************************************************************)
(* Model of the transaction builder of solana_unity (src/src/transaction.rs)*)
(* together with the parts of solana_sdk / bs58 / bincode it calls.         *)
(*                                                                          *)
(* Byte strings are sequences of integers in 0..255.  The fixed widths of   *)
(* the ledger format (32-byte addresses and hashes, 64-byte signatures and  *)
(* keypairs) are scaled down by the single bound PUBKEY_BYTES; every width  *)
(* is derived from it, and the text codec is the real base-58 algorithm.    *)
(***************************************************************************)
EXTENDS Integers, Sequences, FiniteSets, TLC

VARIABLES tx, last, builder, account

vars == <<tx, last, builder, account>>

(***************************************************************************)
(* Bounds                                                                   *)
(***************************************************************************)
\* width of an address in bytes (32 in the ledger format)
PUBKEY_BYTES == 2
\* longest account list of a build_program_call input
MaxAccounts == 2
\* longest instruction list of a build_with_instructions input
MaxInstructions == 2
\* longest key list of a sign_with_keypairs input
MaxKeys == 2

HASH_BYTES == PUBKEY_BYTES
SIGNATURE_BYTES == 2 * PUBKEY_BYTES
SECRET_KEY_LENGTH == PUBKEY_BYTES
KEYPAIR_LENGTH == SECRET_KEY_LENGTH + PUBKEY_BYTES

(***************************************************************************)
(* Generic helpers on sequences                                             *)
(***************************************************************************)
None == [none |-> TRUE]

Zeros(n) == [i \in 1..n |-> 0]

RECURSIVE Pow(_, _)
Pow(b, e) == IF e = 0 THEN 1 ELSE b * Pow(b, e - 1)

RECURSIVE Flatten(_)
Flatten(ss) == IF ss = <<>> THEN <<>> ELSE Head(ss) \o Flatten(Tail(ss))

\* index of the first element of s equal to x, 0 when absent
RECURSIVE PositionFrom(_, _, _)
PositionFrom(s, x, i) ==
    IF i > Len(s) THEN 0
    ELSE IF s[i] = x THEN i ELSE PositionFrom(s, x, i + 1)

Position(s, x) == PositionFrom(s, x, 1)

\* sequences over S of length 0..n
SeqsUpTo(S, n) == UNION {[1..k -> S] : k \in 0..n}

\* the sequences of SeqsUpTo(S, n) that list no element twice
DistinctSeqsUpTo(S, n) ==
    {s \in SeqsUpTo(S, n) : \A i, j \in 1..Len(s) : s[i] = s[j] => i = j}

(***************************************************************************)
(* bs58: the text codec behind Pubkey::from_str, Hash::from_str and         *)
(* to_string.  A text is a sequence of character codes; codes               *)
(* 0..ALPHABET_SIZE-1 are the positions of the base-58 alphabet ('1' is     *)
(* code 0), any other code is a character outside the alphabet.             *)
(***************************************************************************)
ALPHABET_SIZE == 58
BYTE_RANGE == 256

\* numeric value of big-endian digits in the given base
RECURSIVE ValueOf(_, _)
ValueOf(digits, base) ==
    IF digits = <<>> THEN 0
    ELSE ValueOf(SubSeq(digits, 1, Len(digits) - 1), base) * base
         + digits[Len(digits)]

\* minimal big-endian digits of n in the given base (empty for 0)
RECURSIVE DigitsOf(_, _)
DigitsOf(n, base) ==
    IF n = 0 THEN <<>>
    ELSE Append(DigitsOf(n \div base, base), n % base)

RECURSIVE LeadingZeros(_)
LeadingZeros(s) ==
    IF s = <<>> \/ Head(s) # 0 THEN 0 ELSE 1 + LeadingZeros(Tail(s))

\* bs58::decode(text).into_vec()
bs58_decode(text) ==
    IF \E i \in 1..Len(text) : text[i] \notin 0..(ALPHABET_SIZE - 1)
    THEN [ok |-> FALSE, bytes |-> <<>>]
    ELSE [ok |-> TRUE,
          bytes |-> Zeros(LeadingZeros(text))
                    \o DigitsOf(ValueOf(text, ALPHABET_SIZE), BYTE_RANGE)]

\* variant: leading zero bytes are not rendered
bs58_encode_without_leading_ones(bytes) ==
    DigitsOf(ValueOf(bytes, BYTE_RANGE), ALPHABET_SIZE)

\* bs58::encode(bytes).into_string()
bs58_encode(bytes) ==
    Zeros(LeadingZeros(bytes))
    \o DigitsOf(ValueOf(bytes, BYTE_RANGE), ALPHABET_SIZE)

\* MAX_BASE58_LEN: the longest text a value of n bytes can render to
RECURSIVE MaxBase58LenFrom(_, _)
MaxBase58LenFrom(n, len) ==
    IF Pow(ALPHABET_SIZE, len) >= Pow(BYTE_RANGE, n) THEN len
    ELSE MaxBase58LenFrom(n, len + 1)

MAX_BASE58_LEN == MaxBase58LenFrom(PUBKEY_BYTES, 1)

\* Pubkey::from_str / Hash::from_str: Ok(bytes) or ParsePubkeyError
from_str(text) ==
    IF Len(text) > MAX_BASE58_LEN THEN [ok |-> FALSE, bytes |-> <<>>]
    ELSE LET d == bs58_decode(text) IN
         IF ~d.ok \/ Len(d.bytes) # PUBKEY_BYTES
         THEN [ok |-> FALSE, bytes |-> <<>>]
         ELSE d

\* Pubkey::to_string / Hash::to_string
to_string(bytes) == bs58_encode(bytes)


(***************************************************************************)
(* Keys, addresses and the caller's inputs                                  *)
(***************************************************************************)
\* the secret half of the i-th keypair the caller owns
SecretOf(i) == [j \in 1..SECRET_KEY_LENGTH |-> (16 * i + j) % BYTE_RANGE]

\* PublicKey::from(&secret): the public key a secret determines (the curve
\* arithmetic is abstracted to a fixed injective byte map)
DerivePublic(secret) ==
    [j \in 1..Len(secret) |-> (5 * secret[j] + 1) % BYTE_RANGE]

\* Keypair::to_bytes: secret half followed by public half
KeypairBytes(i) == SecretOf(i) \o DerivePublic(SecretOf(i))

\* variant: the public half is taken as given, whatever the secret half
Keypair_from_bytes_unchecked(bytes) ==
    IF Len(bytes) # KEYPAIR_LENGTH
    THEN [ok |-> FALSE, secret |-> <<>>, public |-> <<>>]
    ELSE [ok |-> TRUE,
          secret |-> SubSeq(bytes, 1, SECRET_KEY_LENGTH),
          public |-> SubSeq(bytes, SECRET_KEY_LENGTH + 1, KEYPAIR_LENGTH)]

\* Keypair::from_bytes: the length check, the two halves, and the public
\* half required to be the one the secret half determines
Keypair_from_bytes(bytes) ==
    IF Len(bytes) # KEYPAIR_LENGTH
    THEN [ok |-> FALSE, secret |-> <<>>, public |-> <<>>]
    ELSE LET secret == SubSeq(bytes, 1, SECRET_KEY_LENGTH)
             public == SubSeq(bytes, SECRET_KEY_LENGTH + 1, KEYPAIR_LENGTH)
         IN IF public # DerivePublic(secret)
            THEN [ok |-> FALSE, secret |-> <<>>, public |-> <<>>]
            ELSE [ok |-> TRUE, secret |-> secret, public |-> public]

K1 == DerivePublic(SecretOf(1))
K2 == DerivePublic(SecretOf(2))
K3 == DerivePublic(SecretOf(3))
\* a program address nobody holds a key for
ProgramP == [j \in 1..PUBKEY_BYTES |-> 9]
\* system_program::id(), the all-zero address "1111...1"
SYSTEM_PROGRAM == Zeros(PUBKEY_BYTES)
\* Hash::default()
HashDefault == Zeros(HASH_BYTES)
\* a checkpoint other than the default one
Hash1 == [j \in 1..HASH_BYTES |-> 40 + j]
\* the leading bytes of TokenkegQfeZyiNwAJbNbGKPFXCWuBvf9Ss623VQ5DA
TokenProgramBytes ==
    [j \in 1..PUBKEY_BYTES |-> IF j = 1 THEN 6 ELSE IF j = 2 THEN 221 ELSE 246]
TOKEN_PROGRAM_ID == to_string(TokenProgramBytes)

\* texts that do not parse: the empty string, a character outside the
\* alphabet, a value one byte short
EmptyText == <<>>
BadCharText == <<ALPHABET_SIZE, 1>>
ShortText == <<1>>
BadTexts == {EmptyText, BadCharText, ShortText}

T1 == to_string(K1)
T2 == to_string(K2)
T3 == to_string(K3)
TP == to_string(ProgramP)

BlockhashTexts == {to_string(HashDefault), to_string(Hash1), BadCharText}

\* private key material handed to sign: two keypairs and 'half a keypair'
MalformedKey == SecretOf(1)
KeyInputs == {KeypairBytes(1), KeypairBytes(2), MalformedKey}

(***************************************************************************)
(* Integers as little-endian bytes                                          *)
(***************************************************************************)
RECURSIVE to_le_bytes(_, _)
to_le_bytes(n, width) ==
    IF width = 0 THEN <<>>
    ELSE <<n % BYTE_RANGE>> \o to_le_bytes(n \div BYTE_RANGE, width - 1)

(***************************************************************************)
(* Instructions                                                             *)
(***************************************************************************)
AccountMeta(pubkey, is_signer, is_writable) ==
    [pubkey |-> pubkey, is_signer |-> is_signer, is_writable |-> is_writable]

Instruction(program_id, accounts, data) ==
    [program_id |-> program_id, accounts |-> accounts, data |-> data]

\* solana_sdk::system_instruction::transfer: bincode of
\* SystemInstruction::Transfer { lamports } is the variant index 2 as u32
\* followed by lamports as u64
system_instruction_transfer(from, to, lamports) ==
    Instruction(SYSTEM_PROGRAM,
                <<AccountMeta(from, TRUE, TRUE), AccountMeta(to, FALSE, TRUE)>>,
                to_le_bytes(2, 4) \o to_le_bytes(lamports, 8))

(***************************************************************************)
(* Message::new: CompiledKeys::compile, try_into_message_components and     *)
(* compile_instructions                                                     *)
(***************************************************************************)
\* Pubkey's Ord: lexicographic on the bytes
RECURSIVE PubkeyLess(_, _)
PubkeyLess(a, b) ==
    IF a = <<>> \/ b = <<>> THEN a = <<>> /\ b # <<>>
    ELSE IF Head(a) # Head(b) THEN Head(a) < Head(b)
    ELSE PubkeyLess(Tail(a), Tail(b))

\* variant: the keys iterated from the largest to the smallest
RECURSIVE SortedKeys_descending(_)
SortedKeys_descending(S) ==
    IF S = {} THEN <<>>
    ELSE LET m == CHOOSE k \in S : \A o \in S \ {k} : PubkeyLess(o, k)
         IN <<m>> \o SortedKeys_descending(S \ {m})

\* iteration order of a BTreeMap<Pubkey, _> over the key set S
RECURSIVE SortedKeys(_)
SortedKeys(S) ==
    IF S = {} THEN <<>>
    ELSE LET m == CHOOSE k \in S : \A o \in S \ {k} : PubkeyLess(k, o)
         IN <<m>> \o SortedKeys(S \ {m})

AllMetas(instructions) ==
    Flatten([i \in 1..Len(instructions) |-> instructions[i].accounts])

\* the keys of key_meta_map after CompiledKeys::compile
CompiledKeySet(instructions, payer) ==
    {instructions[i].program_id : i \in 1..Len(instructions)}
    \cup {AllMetas(instructions)[i].pubkey : i \in 1..Len(AllMetas(instructions))}
    \cup {payer}

\* the CompiledKeyMeta of a key: flags are or-ed over every mention, the
\* payer is forced to signer and writable
KeyIsSigner(instructions, payer, key) ==
    \/ key = payer
    \/ \E i \in 1..Len(AllMetas(instructions)) :
          AllMetas(instructions)[i].pubkey = key /\ AllMetas(instructions)[i].is_signer

KeyIsWritable(instructions, payer, key) ==
    \/ key = payer
    \/ \E i \in 1..Len(AllMetas(instructions)) :
          AllMetas(instructions)[i].pubkey = key /\ AllMetas(instructions)[i].is_writable

\* the keys of one (signer, writable) class in map order, payer removed
KeysOfClass(instructions, payer, signer, writable) ==
    SelectSeq(SortedKeys(CompiledKeySet(instructions, payer) \ {payer}),
              LAMBDA k : /\ KeyIsSigner(instructions, payer, k) = signer
                         /\ KeyIsWritable(instructions, payer, k) = writable)

\* variant: positions counted from 1
compile_instruction_one_based(ix, keys) ==
    [program_id_index |-> Position(keys, ix.program_id),
     accounts |-> [i \in 1..Len(ix.accounts) |-> Position(keys, ix.accounts[i].pubkey)],
     data |-> ix.data]

compile_instruction(ix, keys) ==
    [program_id_index |-> Position(keys, ix.program_id) - 1,
     accounts |-> [i \in 1..Len(ix.accounts) |->
                      Position(keys, ix.accounts[i].pubkey) - 1],
     data |-> ix.data]


\* variant: the message compiled as with no payer given, every key
\* (the fee payer too) placed by the flags the instructions give it
Message_new_without_payer(instructions, payer, blockhash) ==
    LET metas == AllMetas(instructions)
        keys == SortedKeys(CompiledKeySet(instructions, payer)
                           \ ({payer} \ {metas[i].pubkey : i \in 1..Len(metas)}))
        Signer(k) == \E i \in 1..Len(metas) : metas[i].pubkey = k /\ metas[i].is_signer
        Writable(k) == \E i \in 1..Len(metas) : metas[i].pubkey = k /\ metas[i].is_writable
        Class(s, w) == SelectSeq(keys, LAMBDA k : Signer(k) = s /\ Writable(k) = w)
        account_keys == Class(TRUE, TRUE) \o Class(TRUE, FALSE)
                        \o Class(FALSE, TRUE) \o Class(FALSE, FALSE)
    IN [header |->
          [num_required_signatures |-> Len(Class(TRUE, TRUE)) + Len(Class(TRUE, FALSE)),
           num_readonly_signed_accounts |-> Len(Class(TRUE, FALSE)),
           num_readonly_unsigned_accounts |-> Len(Class(FALSE, FALSE))],
        account_keys |-> account_keys,
        recent_blockhash |-> blockhash,
        instructions |-> [i \in 1..Len(instructions) |->
                             compile_instruction(instructions[i], account_keys)]]

\* Message::new_with_blockhash(instructions, Some(payer), blockhash)
Message_new_with_blockhash(instructions, payer, blockhash) ==
    LET writable_signer_keys == <<payer>> \o KeysOfClass(instructions, payer, TRUE, TRUE)
        readonly_signer_keys == KeysOfClass(instructions, payer, TRUE, FALSE)
        writable_non_signer_keys == KeysOfClass(instructions, payer, FALSE, TRUE)
        readonly_non_signer_keys == KeysOfClass(instructions, payer, FALSE, FALSE)
        account_keys == writable_signer_keys \o readonly_signer_keys
                        \o writable_non_signer_keys \o readonly_non_signer_keys
    IN [header |->
          [num_required_signatures |->
               Len(writable_signer_keys) + Len(readonly_signer_keys),
           num_readonly_signed_accounts |-> Len(readonly_signer_keys),
           num_readonly_unsigned_accounts |-> Len(readonly_non_signer_keys)],
        account_keys |-> account_keys,
        recent_blockhash |-> blockhash,
        instructions |-> [i \in 1..Len(instructions) |->
                             compile_instruction(instructions[i], account_keys)]]

\* variant: the compiled message carries one instruction more than it was given
Message_new_with_stale_instruction(instructions, payer) ==
    Message_new_with_blockhash(instructions \o <<Instruction(payer, <<>>, <<>>)>>,
                               payer, HashDefault)

\* Message::new(instructions, Some(payer)): the checkpoint is Hash::default()
Message_new(instructions, payer) ==
    Message_new_with_blockhash(instructions, payer, HashDefault)

SignatureDefault == Zeros(SIGNATURE_BYTES)


\* variant: one placeholder per entry of the account table
new_unsigned_per_account(message) ==
    [signatures |-> [i \in 1..Len(message.account_keys) |-> SignatureDefault],
     message |-> message]

\* SolanaTransaction::new_unsigned(message)
new_unsigned(message) ==
    [signatures |-> [i \in 1..message.header.num_required_signatures |->
                        SignatureDefault],
     message |-> message]


(***************************************************************************)
(* bincode / short_vec: the wire encoding of a transaction                  *)
(***************************************************************************)
\* short_vec::encode_len: 7 bits per byte, low bits first, 0x80 = more
RECURSIVE encode_len(_)
encode_len(n) ==
    IF n \div 128 = 0 THEN <<n % 128>>
    ELSE <<(n % 128) + 128>> \o encode_len(n \div 128)

ShortVecBytes(bytes) == encode_len(Len(bytes)) \o bytes

ShortVecItems(items) == encode_len(Len(items)) \o Flatten(items)

serialize_instruction(ci) ==
    <<ci.program_id_index>> \o ShortVecBytes(ci.accounts) \o ShortVecBytes(ci.data)

\* bincode::serialize(&message), also Transaction::message_data()
serialize_message(m) ==
    <<m.header.num_required_signatures,
      m.header.num_readonly_signed_accounts,
      m.header.num_readonly_unsigned_accounts>>
    \o ShortVecItems(m.account_keys)
    \o m.recent_blockhash
    \o ShortVecItems([i \in 1..Len(m.instructions) |->
                         serialize_instruction(m.instructions[i])])


\* variant: the signature count written as a fixed 8-byte length
bincode_serialize_fixed_len(t) ==
    to_le_bytes(Len(t.signatures), 8) \o Flatten(t.signatures)
    \o serialize_message(t.message)

\* bincode::serialize(&tx)
bincode_serialize(t) == ShortVecItems(t.signatures) \o serialize_message(t.message)

\* readers: each returns [ok, val, rest]; rest is the unread input
Fail == [ok |-> FALSE, val |-> <<>>, rest |-> <<>>]

Read(val, rest) == [ok |-> TRUE, val |-> val, rest |-> rest]

\* the `?` of a reader: stop at the first error, else go on with the result
Then(r, Go(_)) == IF r.ok THEN Go(r) ELSE Fail

Drop(b, n) == SubSeq(b, n + 1, Len(b))

read_bytes(b, n) ==
    IF Len(b) < n THEN Fail ELSE Read(SubSeq(b, 1, n), Drop(b, n))

\* short_vec::ShortU16 visitor: at most 3 bytes, no alias encodings
\* (a zero byte after the first), no overflow of u16
RECURSIVE read_len_from(_, _, _)
read_len_from(b, val, nth_byte) ==
    IF b = <<>> THEN Fail
    ELSE IF Head(b) = 0 /\ nth_byte # 0 THEN Fail
    ELSE IF nth_byte = 2 /\ Head(b) >= 128 THEN Fail
    ELSE IF val + (Head(b) % 128) * Pow(128, nth_byte) >= 65536 THEN Fail
    ELSE IF Head(b) < 128
         THEN Read(val + (Head(b) % 128) * Pow(128, nth_byte), Tail(b))
         ELSE read_len_from(Tail(b), val + (Head(b) % 128) * Pow(128, nth_byte),
                            nth_byte + 1)

read_len(b) == read_len_from(b, 0, 0)

\* count items of a fixed width
RECURSIVE read_items(_, _, _)
read_items(b, count, width) ==
    IF count = 0 THEN Read(<<>>, b)
    ELSE Then(read_bytes(b, width), LAMBDA one :
         Then(read_items(one.rest, count - 1, width), LAMBDA more :
         Read(<<one.val>> \o more.val, more.rest)))

read_short_vec_items(b, width) ==
    Then(read_len(b), LAMBDA n : read_items(n.rest, n.val, width))

read_short_vec_bytes(b) ==
    Then(read_len(b), LAMBDA n : read_bytes(n.rest, n.val))

read_instruction(b) ==
    Then(read_bytes(b, 1), LAMBDA p :
    Then(read_short_vec_bytes(p.rest), LAMBDA a :
    Then(read_short_vec_bytes(a.rest), LAMBDA d :
    Read([program_id_index |-> p.val[1], accounts |-> a.val, data |-> d.val],
         d.rest))))

RECURSIVE read_instructions(_, _)
read_instructions(b, count) ==
    IF count = 0 THEN Read(<<>>, b)
    ELSE Then(read_instruction(b), LAMBDA one :
         Then(read_instructions(one.rest, count - 1), LAMBDA more :
         Read(<<one.val>> \o more.val, more.rest)))

read_message(b) ==
    Then(read_bytes(b, 3), LAMBDA h :
    Then(read_short_vec_items(h.rest, PUBKEY_BYTES), LAMBDA k :
    Then(read_bytes(k.rest, HASH_BYTES), LAMBDA r :
    Then(read_len(r.rest), LAMBDA n :
    Then(read_instructions(n.rest, n.val), LAMBDA i :
    Read([header |-> [num_required_signatures |-> h.val[1],
                      num_readonly_signed_accounts |-> h.val[2],
                      num_readonly_unsigned_accounts |-> h.val[3]],
          account_keys |-> k.val,
          recent_blockhash |-> r.val,
          instructions |-> i.val],
         i.rest))))))

\* bincode::deserialize::<SolanaTransaction>(data): trailing bytes are allowed
bincode_deserialize(data) ==
    Then(read_short_vec_items(data, SIGNATURE_BYTES), LAMBDA s :
    Then(read_message(s.rest), LAMBDA m :
    Read([signatures |-> s.val, message |-> m.val], m.rest)))

(***************************************************************************)
(* Signing: Keypair::sign_message and Transaction::try_sign of solana_sdk   *)
(***************************************************************************)
RECURSIVE Digest(_)
Digest(msg) ==
    IF msg = <<>> THEN 0
    ELSE (Digest(SubSeq(msg, 1, Len(msg) - 1)) * 31 + msg[Len(msg)] + 1) % 65521

\* the signature of msg under a keypair: a deterministic function of the
\* secret and the message bytes that never yields the all-zero signature
sign_message(kp, msg) ==
    LET d == Digest(msg) IN
    [j \in 1..SECRET_KEY_LENGTH |-> (kp.secret[j] + d) % BYTE_RANGE]
    \o to_le_bytes(1 + (d % (Pow(BYTE_RANGE, PUBKEY_BYTES) - 1)), PUBKEY_BYTES)

\* Transaction::is_signed

\* variant: one filled slot is enough
is_signed_any(t) ==
    \E i \in 1..Len(t.signatures) : t.signatures[i] # SignatureDefault

is_signed(t) ==
    \A i \in 1..Len(t.signatures) : t.signatures[i] # SignatureDefault

\* Transaction::get_signing_keypair_positions: for each key its index among
\* the first num_required_signatures account keys, 0 for None
get_signing_keypair_positions(t, pubkeys) ==
    LET n == t.message.header.num_required_signatures IN
    IF Len(t.message.account_keys) < n
    THEN [ok |-> FALSE, positions |-> <<>>]
    ELSE [ok |-> TRUE,
          positions |-> [i \in 1..Len(pubkeys) |->
                            Position(SubSeq(t.message.account_keys, 1, n), pubkeys[i])]]

\* the loop of try_partial_sign_unchecked: self.signatures[positions[i]] = signatures[i]
RECURSIVE place_signatures(_, _, _)
place_signatures(sigs, positions, new) ==
    IF positions = <<>> THEN sigs
    ELSE place_signatures([sigs EXCEPT ![Head(positions)] = Head(new)],
                          Tail(positions), Tail(new))

\* variant: a slot another signer had filled is signed over by the first
\* key supplied
try_partial_sign_over_filled(t, keypairs) ==
    LET pos == get_signing_keypair_positions(
                   t, [i \in 1..Len(keypairs) |-> keypairs[i].public])
        new == [i \in 1..Len(keypairs) |->
                   sign_message(keypairs[i], serialize_message(t.message))]
    IN IF ~pos.ok THEN [ok |-> FALSE, tx |-> t]
       ELSE IF \E i \in 1..Len(pos.positions) : pos.positions[i] = 0
       THEN [ok |-> FALSE, tx |-> t]
       ELSE [ok |-> TRUE,
             tx |-> [t EXCEPT !.signatures =
                        place_signatures(
                            [i \in 1..Len(t.signatures) |->
                                IF t.signatures[i] = SignatureDefault \/ new = <<>>
                                THEN t.signatures[i] ELSE new[1]],
                            pos.positions, new)]]

\* Transaction::try_partial_sign with the message's own checkpoint
try_partial_sign(t, keypairs) ==
    LET pos == get_signing_keypair_positions(
                   t, [i \in 1..Len(keypairs) |-> keypairs[i].public])
    IN IF ~pos.ok THEN [ok |-> FALSE, tx |-> t]
       ELSE IF \E i \in 1..Len(pos.positions) : pos.positions[i] = 0
       THEN [ok |-> FALSE, tx |-> t]
       ELSE [ok |-> TRUE,
             tx |-> [t EXCEPT !.signatures =
                        place_signatures(
                            t.signatures, pos.positions,
                            [i \in 1..Len(keypairs) |->
                                sign_message(keypairs[i],
                                             serialize_message(t.message))])]]

\* Transaction::try_sign: partial sign, then NotEnoughSigners unless is_signed
try_sign(t, keypairs) ==
    LET r == try_partial_sign(t, keypairs) IN
    IF ~r.ok THEN r
    ELSE IF ~is_signed(r.tx) THEN [ok |-> FALSE, tx |-> r.tx]
    ELSE r


(***************************************************************************)
(* The handlers of Transaction (src/src/transaction.rs).                    *)
(*                                                                          *)
(* A build_* method first computes a Result (every `?` returns the          *)
(* InvalidInput error before self is touched) and ends with                 *)
(* self.tx = Some(tx); Ok(()).  The computation is the operator named after *)
(* the method, [ok, tx]; set_tx is the final assignment.  The other         *)
(* handlers map the builder's tx field and the arguments to the new tx      *)
(* field and the returned status ("Ok" or the SolanaUnityError variant).    *)
(***************************************************************************)
Outcome(t, status) == [tx |-> t, status |-> status]

Err == [ok |-> FALSE, tx |-> None]

Built(t) == [ok |-> TRUE, tx |-> t]

\* a build_* that drops the transaction it holds when it fails
set_tx_or_clear(t, r) ==
    IF r.ok THEN Outcome(r.tx, "Ok") ELSE Outcome(None, "InvalidInput")

\* the tail of every build_*: self.tx = Some(tx); Ok(()), or the early Err
set_tx(t, r) ==
    IF r.ok THEN Outcome(r.tx, "Ok") ELSE Outcome(t, "InvalidInput")

\* build_program_call without the parse of the checkpoint text
build_program_call_unchecked_blockhash(program_id, accounts, data, recent_blockhash, fee_payer) ==
    LET program == from_str(program_id)
        fee_payer_pubkey == from_str(fee_payer)
        parsed == [i \in 1..Len(accounts) |-> from_str(accounts[i][1])]
    IN IF ~program.ok THEN Err
       ELSE IF ~fee_payer_pubkey.ok THEN Err
       ELSE IF \E i \in 1..Len(accounts) : ~parsed[i].ok THEN Err
       ELSE LET account_metas ==
                    [i \in 1..Len(accounts) |->
                        AccountMeta(parsed[i].bytes, accounts[i][2], accounts[i][3])]
                instruction == Instruction(program.bytes, account_metas, data)
                message == Message_new(<<instruction>>, fee_payer_pubkey.bytes)
            IN Built(new_unsigned(message))

\* Transaction::build_program_call
build_program_call(program_id, accounts, data, recent_blockhash, fee_payer) ==
    LET program == from_str(program_id)
        fee_payer_pubkey == from_str(fee_payer)
        parsed == [i \in 1..Len(accounts) |-> from_str(accounts[i][1])]
        blockhash == from_str(recent_blockhash)
    IN IF ~program.ok THEN Err
       ELSE IF ~fee_payer_pubkey.ok THEN Err
       ELSE IF \E i \in 1..Len(accounts) : ~parsed[i].ok THEN Err
       ELSE IF ~blockhash.ok THEN Err
       ELSE LET account_metas ==
                    [i \in 1..Len(accounts) |->
                        AccountMeta(parsed[i].bytes, accounts[i][2], accounts[i][3])]
                instruction == Instruction(program.bytes, account_metas, data)
                message == Message_new(<<instruction>>, fee_payer_pubkey.bytes)
            IN Built(new_unsigned(message))

\* Transaction::build_transfer
build_transfer(from_pubkey, to_pubkey, lamports, recent_blockhash) ==
    LET from == from_str(from_pubkey)
        to == from_str(to_pubkey)
        blockhash == from_str(recent_blockhash)
    IN IF ~from.ok THEN Err
       ELSE IF ~to.ok THEN Err
       ELSE IF ~blockhash.ok THEN Err
       ELSE LET instruction ==
                    system_instruction_transfer(from.bytes, to.bytes, lamports)
                message == Message_new(<<instruction>>, from.bytes)
            IN Built(new_unsigned(message))

\* variant: the source account pays the fee
build_token_transfer_paid_by_source(token_program_id, source_pubkey, destination_pubkey, owner_pubkey, amount, recent_blockhash) ==
    LET token_program == IF token_program_id = <<>>
                         THEN from_str(TOKEN_PROGRAM_ID)
                         ELSE from_str(token_program_id)
        source == from_str(source_pubkey)
        destination == from_str(destination_pubkey)
        owner == from_str(owner_pubkey)
        data == <<3>> \o to_le_bytes(amount, 8)
        accounts == <<<<source_pubkey, FALSE, TRUE>>,
                      <<destination_pubkey, FALSE, TRUE>>,
                      <<owner_pubkey, TRUE, FALSE>>>>
    IN IF ~token_program.ok THEN Err
       ELSE IF ~source.ok THEN Err
       ELSE IF ~destination.ok THEN Err
       ELSE IF ~owner.ok THEN Err
       ELSE build_program_call(to_string(token_program.bytes), accounts, data,
                               recent_blockhash, source_pubkey)

\* Transaction::build_token_transfer
build_token_transfer(token_program_id, source_pubkey, destination_pubkey, owner_pubkey, amount, recent_blockhash) ==
    LET token_program == IF token_program_id = <<>>
                         THEN from_str(TOKEN_PROGRAM_ID)
                         ELSE from_str(token_program_id)
        source == from_str(source_pubkey)
        destination == from_str(destination_pubkey)
        owner == from_str(owner_pubkey)
        data == <<3>> \o to_le_bytes(amount, 8)
        accounts == <<<<source_pubkey, FALSE, TRUE>>,
                      <<destination_pubkey, FALSE, TRUE>>,
                      <<owner_pubkey, TRUE, FALSE>>>>
    IN IF ~token_program.ok THEN Err
       ELSE IF ~source.ok THEN Err
       ELSE IF ~destination.ok THEN Err
       ELSE IF ~owner.ok THEN Err
       ELSE build_program_call(to_string(token_program.bytes), accounts, data,
                               recent_blockhash, owner_pubkey)

\* Transaction::build_with_instructions
build_with_instructions(instructions, fee_payer, recent_blockhash) ==
    LET fee_payer_pubkey == from_str(fee_payer)
        blockhash == from_str(recent_blockhash)
    IN IF ~fee_payer_pubkey.ok THEN Err
       ELSE IF ~blockhash.ok THEN Err
       ELSE Built(new_unsigned(Message_new(instructions, fee_payer_pubkey.bytes)))

\* Transaction::sign: the key is parsed first; self.tx.take() then leaves
\* None in the builder until the final self.tx = Some(tx)
sign(t, private_key) ==
    LET keypair == Keypair_from_bytes(private_key) IN
    IF ~keypair.ok THEN Outcome(t, "WalletError")
    ELSE IF t = None THEN Outcome(None, "TransactionError")
    ELSE LET r == try_sign(t, <<keypair>>) IN
         IF ~r.ok THEN Outcome(None, "TransactionError")
         ELSE Outcome(r.tx, "Ok")


\* variant: each key is used as soon as it is parsed, so the keys before a
\* malformed one have signed when the call fails
sign_with_keypairs_eager(t, private_keys) ==
    LET keypairs == [i \in 1..Len(private_keys) |-> Keypair_from_bytes(private_keys[i])]
        bad == {i \in 1..Len(private_keys) : ~keypairs[i].ok}
        first_bad == CHOOSE i \in bad : \A j \in bad : i <= j
    IN IF bad # {}
       THEN IF t = None THEN Outcome(None, "WalletError")
            ELSE Outcome(try_partial_sign(t, SubSeq(keypairs, 1, first_bad - 1)).tx,
                         "WalletError")
       ELSE IF t = None THEN Outcome(None, "TransactionError")
       ELSE LET r == try_sign(t, keypairs) IN
            IF ~r.ok THEN Outcome(None, "TransactionError")
            ELSE Outcome(r.tx, "Ok")

\* Transaction::sign_with_keypairs
sign_with_keypairs(t, private_keys) ==
    LET keypairs == [i \in 1..Len(private_keys) |-> Keypair_from_bytes(private_keys[i])]
    IN IF \E i \in 1..Len(private_keys) : ~keypairs[i].ok
       THEN Outcome(t, "WalletError")
       ELSE IF t = None THEN Outcome(None, "TransactionError")
       ELSE LET r == try_sign(t, keypairs) IN
            IF ~r.ok THEN Outcome(None, "TransactionError")
            ELSE Outcome(r.tx, "Ok")

\* Transaction::serialize: [status, bytes]
serialize(t) ==
    IF t = None THEN [status |-> "TransactionError", bytes |-> <<>>]
    ELSE [status |-> "Ok", bytes |-> bincode_serialize(t)]


\* variant: the builder is emptied before the bytes are decoded
from_serialized_reset(t, data) ==
    LET d == bincode_deserialize(data) IN
    IF ~d.ok THEN Outcome(None, "SerializationError")
    ELSE Outcome(d.val, "Ok")

\* Transaction::from_serialized
from_serialized(t, data) ==
    LET d == bincode_deserialize(data) IN
    IF ~d.ok THEN Outcome(t, "SerializationError")
    ELSE Outcome(d.val, "Ok")

\* Transaction::get_transaction: the status of the returned Result
get_transaction(t) == IF t = None THEN "TransactionError" ELSE "Ok"



LAMPORTS_PER_SIGNATURE == 5000

\* variant: only the slots already signed are counted
get_fee_estimate_filled_slots(t) ==
    IF t = None THEN [status |-> "TransactionError", fee |-> 0]
    ELSE [status |-> "Ok",
          fee |-> Cardinality({i \in 1..Len(t.signatures) :
                                  t.signatures[i] # SignatureDefault})
                  * LAMPORTS_PER_SIGNATURE]

\* variant: an empty builder estimates a fee of 0
get_fee_estimate_or_zero(t) ==
    IF t = None THEN [status |-> "Ok", fee |-> 0]
    ELSE [status |-> "Ok", fee |-> Len(t.signatures) * LAMPORTS_PER_SIGNATURE]

\* Transaction::get_fee_estimate: [status, fee]
get_fee_estimate(t) ==
    IF t = None THEN [status |-> "TransactionError", fee |-> 0]
    ELSE [status |-> "Ok", fee |-> Len(t.signatures) * LAMPORTS_PER_SIGNATURE]

(***************************************************************************)
(* Inputs of the calls                                                      *)
(***************************************************************************)
Amounts == {1000}

\* (address text, is_signer, is_writable) entries of build_program_call
AccountInputs ==
    {<<T1, FALSE, FALSE>>, <<T2, TRUE, FALSE>>, <<T2, FALSE, TRUE>>,
     <<T3, FALSE, FALSE>>, <<BadCharText, FALSE, FALSE>>}

\* pre-built instructions handed to build_with_instructions
InstructionInputs ==
    {system_instruction_transfer(K1, K2, 1000),
     Instruction(ProgramP, <<AccountMeta(K2, TRUE, FALSE)>>, <<7>>)}

\* transactions another party built and signed with its own key only
ForeignTxs ==
    {try_partial_sign(
         new_unsigned(Message_new(
             <<Instruction(ProgramP, <<AccountMeta(K2, TRUE, FALSE)>>, <<7>>)>>, K1)),
         <<Keypair_from_bytes(KeypairBytes(i))>>).tx : i \in {1, 2}}

ForeignData == {bincode_serialize(f) : f \in ForeignTxs}

Prefixes(b) == {SubSeq(b, 1, n) : n \in 0..(Len(b) - 1)}

\* a serialization, cut short anywhere, or with a byte after it
Variants(w) == {w, Append(w, 0)} \cup Prefixes(w)

\* bytes handed to from_serialized: what serialize returned for a foreign
\* transaction, and every variant of what it returns for the builder's own
\* transaction (of a foreign one while the builder is empty)
DataInputs(t) ==
    ForeignData
    \cup (IF t = None
          THEN UNION {Variants(w) : w \in ForeignData}
          ELSE Variants(bincode_serialize(t)))

(***************************************************************************)
(* The state machine.  tx is the builder's field.  last is the latest call  *)
(* as its caller saw it: the operation, the builder's state before it, the  *)
(* arguments (checkpoint text, key material, and for a build_* that parsed  *)
(* its addresses the instruction list and fee payer it asked for), the      *)
(* returned status and the returned value.                                  *)
(***************************************************************************)
\* the signer slots of t: one per account key counted by the header
SignerSlots(t) == 1..t.message.header.num_required_signatures

SlotFilled(t, i) == i <= Len(t.signatures) /\ t.signatures[i] # SignatureDefault

\* the state of the builder in the terms of the specification's state machine
BuilderState(t) ==
    IF t = None THEN "Empty"
    ELSE IF \A i \in SignerSlots(t) : SlotFilled(t, i) THEN "FullySigned"
    ELSE IF \E i \in SignerSlots(t) : SlotFilled(t, i) THEN "PartiallySigned"
    ELSE "Built"

Call(op, status) ==
    [op |-> op, status |-> status, before |-> BuilderState(tx), text |-> <<>>,
     keys |-> <<>>, bytes |-> <<>>, fee |-> 0, ixs |-> <<>>, payer |-> <<>>,
     rejected |-> 0]

Init ==
    /\ tx = None
    /\ builder = None
    /\ account = None
    /\ last = [op |-> "new", status |-> "Ok", before |-> "Empty", text |-> <<>>,
               keys |-> <<>>, bytes |-> <<>>, fee |-> 0, ixs |-> <<>>,
               payer |-> <<>>, rejected |-> 0]

\* the instruction a build_program_call asks for, once its texts parse
ProgramCallInstruction(program_id, accounts, data) ==
    Instruction(from_str(program_id).bytes,
                [i \in 1..Len(accounts) |->
                    AccountMeta(from_str(accounts[i][1]).bytes,
                                accounts[i][2], accounts[i][3])],
                data)

\* the instruction a build_token_transfer asks for: the token transfer
\* shape on the given (or the default) token program
TokenTransferInstruction(token_program_id, source, destination, owner, amount) ==
    Instruction(IF token_program_id = <<>> THEN TokenProgramBytes
                ELSE from_str(token_program_id).bytes,
                <<AccountMeta(from_str(source).bytes, FALSE, TRUE),
                  AccountMeta(from_str(destination).bytes, FALSE, TRUE),
                  AccountMeta(from_str(owner).bytes, TRUE, FALSE)>>,
                <<3>> \o to_le_bytes(amount, 8))

\* the calls of each build_* the caller may make: the checkpoint text, the
\* Result computed and, when it is Ok, the instructions and fee payer asked
\* for (calls that differ in none of these are one call here)
BuildCall(c, r, ixs, payer) ==
    [text |-> c, result |-> r,
     ixs |-> IF r.ok THEN ixs ELSE <<>>,
     payer |-> IF r.ok THEN payer ELSE <<>>]

BuildTransferCalls ==
    {BuildCall(c, build_transfer(f, to, n, c),
               <<system_instruction_transfer(from_str(f).bytes, from_str(to).bytes, n)>>,
               from_str(f).bytes) :
        f \in {T1, T2, EmptyText}, to \in {T1, T2, ShortText},
        n \in Amounts, c \in BlockhashTexts}

BuildTokenTransferCalls ==
    {BuildCall(c, build_token_transfer(p, s, d, w, n, c),
               <<TokenTransferInstruction(p, s, d, w, n)>>, from_str(w).bytes) :
        p \in {EmptyText, TP, BadCharText}, s \in {T1, T2, ShortText},
        d \in {T2, BadCharText}, w \in {T1, T2, EmptyText},
        n \in Amounts, c \in BlockhashTexts}

\* a list whose only malformed address stands between two well-formed ones
BadInTheMiddle ==
    <<<<T1, FALSE, FALSE>>, <<BadCharText, FALSE, FALSE>>, <<T3, FALSE, FALSE>>>>

\* the position of the first listed account whose text fails to parse, 0
\* when every one parses
FirstRejected(accounts) ==
    LET bad == {i \in 1..Len(accounts) : ~from_str(accounts[i][1]).ok} IN
    IF bad = {} THEN 0 ELSE CHOOSE i \in bad : \A j \in bad : i <= j

BuildProgramCallCalls ==
    {BuildCall(c, build_program_call(p, a, <<7>>, c, f),
               <<ProgramCallInstruction(p, a, <<7>>)>>, from_str(f).bytes)
         @@ [rejected |-> FirstRejected(a)] :
        p \in {TP, BadCharText},
        a \in DistinctSeqsUpTo(AccountInputs, MaxAccounts) \cup {BadInTheMiddle},
        c \in BlockhashTexts, f \in {T1, T2, ShortText}}

BuildWithInstructionsCalls ==
    {BuildCall(c, build_with_instructions(ixs, f, c), ixs, from_str(f).bytes) :
        ixs \in SeqsUpTo(InstructionInputs, MaxInstructions),
        f \in {T1, T2, BadCharText}, c \in BlockhashTexts}

BuildTransfer ==
    \E call \in BuildTransferCalls :
        LET o == set_tx(tx, call.result) IN
        /\ tx' = o.tx
        /\ UNCHANGED <<builder, account>>
        /\ last' = [Call("build_transfer", o.status) EXCEPT
                       !.text = call.text, !.ixs = call.ixs, !.payer = call.payer]

BuildTokenTransfer ==
    \E call \in BuildTokenTransferCalls :
        LET o == set_tx(tx, call.result) IN
        /\ tx' = o.tx
        /\ UNCHANGED <<builder, account>>
        /\ last' = [Call("build_token_transfer", o.status) EXCEPT
                       !.text = call.text, !.ixs = call.ixs, !.payer = call.payer]

BuildProgramCall ==
    \E call \in BuildProgramCallCalls :
        LET o == set_tx(tx, call.result) IN
        /\ tx' = o.tx
        /\ UNCHANGED <<builder, account>>
        /\ last' = [Call("build_program_call", o.status) EXCEPT
                       !.text = call.text, !.ixs = call.ixs, !.payer = call.payer,
                       !.rejected = call.rejected]

BuildWithInstructions ==
    \E call \in BuildWithInstructionsCalls :
        LET o == set_tx(tx, call.result) IN
        /\ tx' = o.tx
        /\ UNCHANGED <<builder, account>>
        /\ last' = [Call("build_with_instructions", o.status) EXCEPT
                       !.text = call.text, !.ixs = call.ixs, !.payer = call.payer]

Sign ==
    \E k \in KeyInputs :
        LET o == sign(tx, k) IN
        /\ tx' = o.tx
        /\ UNCHANGED <<builder, account>>
        /\ last' = [Call("sign", o.status) EXCEPT !.keys = <<k>>]

SignWithKeypairs ==
    \E ks \in DistinctSeqsUpTo(KeyInputs, MaxKeys) :
        LET o == sign_with_keypairs(tx, ks) IN
        /\ tx' = o.tx
        /\ UNCHANGED <<builder, account>>
        /\ last' = [Call("sign_with_keypairs", o.status) EXCEPT !.keys = ks]

Serialize ==
    LET o == serialize(tx) IN
    /\ UNCHANGED <<builder, account>>
    /\ last' = [Call("serialize", o.status) EXCEPT !.bytes = o.bytes]
    /\ UNCHANGED tx

FromSerialized ==
    \E data \in DataInputs(tx) :
        LET o == from_serialized(tx, data) IN
        /\ tx' = o.tx
        /\ UNCHANGED <<builder, account>>
        /\ last' = Call("from_serialized", o.status)

GetTransaction ==
    /\ UNCHANGED <<builder, account>>
    /\ last' = Call("get_transaction", get_transaction(tx))
    /\ UNCHANGED tx

GetFeeEstimate ==
    LET o == get_fee_estimate(tx) IN
    /\ UNCHANGED <<builder, account>>
    /\ last' = [Call("get_fee_estimate", o.status) EXCEPT !.fee = o.fee]
    /\ UNCHANGED tx

Next ==
    \/ BuildTransfer
    \/ BuildTokenTransfer
    \/ BuildProgramCall
    \/ BuildWithInstructions
    \/ Sign
    \/ SignWithKeypairs
    \/ Serialize
    \/ FromSerialized
    \/ GetTransaction
    \/ GetFeeEstimate

Spec == Init /\ [][Next]_vars

(***************************************************************************)
(* Program derived addresses (pda.rs) over Pubkey::create_program_address   *)
(* and Pubkey::find_program_address of solana_sdk.  The hash and the curve  *)
(* test are abstract: the candidate is a digest of the hashed bytes, and    *)
(* whether it is a curve point is decided by on_curve, the set of final     *)
(* seed bytes whose candidate lies on the curve, an input of each call.     *)
(***************************************************************************)
MAX_SEEDS == 16
MAX_SEED_LEN == 32
U8_MAX == 255

\* the domain tag "ProgramDerivedAddress" hashed after the program id
PDA_MARKER == <<80, 68, 65>>

\* the leading bytes of ATokenGPvbdGVxr1b2hvZbsiqW5xWH25efTNsLJA8knL
AssociatedTokenProgramBytes ==
    [j \in 1..PUBKEY_BYTES |-> IF j = 1 THEN 140 ELSE IF j = 2 THEN 151 ELSE 37]

\* hashv(seeds.., program_id, PDA_MARKER) as an address
hash_to_pubkey(seeds, program_id) ==
    to_le_bytes(Digest(Flatten(seeds) \o program_id \o PDA_MARKER), PUBKEY_BYTES)

\* bytes_are_curve_point of the candidate hashed from seeds
bytes_are_curve_point(seeds, on_curve) ==
    LET flat == Flatten(seeds) IN
    (IF flat = <<>> THEN 0 ELSE flat[Len(flat)]) \in on_curve

PubkeyError(kind) == [ok |-> FALSE, err |-> kind, address |-> <<>>]

\* Pubkey::create_program_address
Pubkey_create_program_address(seeds, program_id, on_curve) ==
    IF Len(seeds) > MAX_SEEDS THEN PubkeyError("MaxSeedLengthExceeded")
    ELSE IF \E i \in 1..Len(seeds) : Len(seeds[i]) > MAX_SEED_LEN
    THEN PubkeyError("MaxSeedLengthExceeded")
    ELSE IF bytes_are_curve_point(seeds, on_curve) THEN PubkeyError("InvalidSeeds")
    ELSE [ok |-> TRUE, err |-> "", address |-> hash_to_pubkey(seeds, program_id)]

NoAddress == [some |-> FALSE, address |-> <<>>, bump |-> 0]

\* variant: the search climbs from bump 1
bump_of_iteration_ascending(k) == k

\* Pubkey::try_find_program_address: `for _ in 0..u8::MAX` with bump_seed
\* starting at u8::MAX and decremented after each InvalidSeeds.  Iteration k
\* (from 1) tries bump U8_MAX - (k - 1); the loop ends at the first iteration
\* whose derivation does not answer InvalidSeeds: with the address when it
\* succeeded, with None on any other error, and with None after the last
\* iteration.
bump_of_iteration(k) == U8_MAX - (k - 1)

try_find_program_address(seeds, program_id, on_curve) ==
    LET attempt(k) ==
            Pubkey_create_program_address(
                Append(seeds, <<bump_of_iteration(k)>>), program_id, on_curve)
        ended == {k \in 1..U8_MAX : attempt(k).err # "InvalidSeeds"}
    IN IF ended = {} THEN NoAddress
       ELSE LET k == CHOOSE i \in ended : \A j \in ended : i <= j
                r == attempt(k)
            IN IF r.ok
               THEN [some |-> TRUE, address |-> r.address,
                     bump |-> bump_of_iteration(k)]
               ELSE NoAddress

\* the Result of a pda.rs function as its caller sees it; "Panic" is the
\* unwinding of unwrap_or_else(|| panic!(..)) in Pubkey::find_program_address
PdaResult(status, address, bump) ==
    [status |-> status, address |-> address, bump |-> bump]

\* ProgramDerivedAddress::find_program_address
find_program_address(seeds, program_id, on_curve) ==
    LET program_pubkey == from_str(program_id) IN
    IF ~program_pubkey.ok THEN PdaResult("InvalidInput", <<>>, 0)
    ELSE LET found == try_find_program_address(seeds, program_pubkey.bytes, on_curve)
         IN IF ~found.some THEN PdaResult("Panic", <<>>, 0)
            ELSE PdaResult("Ok", to_string(found.address), found.bump)

\* variant: when the one derivation fails, the bump search answers instead
create_program_address_or_find(seeds, program_id, on_curve) ==
    LET program_pubkey == from_str(program_id) IN
    IF ~program_pubkey.ok THEN PdaResult("InvalidInput", <<>>, 0)
    ELSE LET r == Pubkey_create_program_address(seeds, program_pubkey.bytes, on_curve)
             found == try_find_program_address(seeds, program_pubkey.bytes, on_curve)
         IN IF r.ok THEN PdaResult("Ok", to_string(r.address), 0)
            ELSE IF found.some THEN PdaResult("Ok", to_string(found.address), 0)
            ELSE PdaResult("InvalidInput", <<>>, 0)

\* ProgramDerivedAddress::create_program_address
create_program_address(seeds, program_id, on_curve) ==
    LET program_pubkey == from_str(program_id) IN
    IF ~program_pubkey.ok THEN PdaResult("InvalidInput", <<>>, 0)
    ELSE LET r == Pubkey_create_program_address(seeds, program_pubkey.bytes, on_curve)
         IN IF ~r.ok THEN PdaResult("InvalidInput", <<>>, 0)
            ELSE PdaResult("Ok", to_string(r.address), 0)

\* variant: the mint seed stands before the wallet seed
find_associated_token_address_mint_first(wallet_address, token_mint, on_curve) ==
    LET wallet_pubkey == from_str(wallet_address)
        token_mint_pubkey == from_str(token_mint)
    IN IF ~wallet_pubkey.ok THEN PdaResult("InvalidInput", <<>>, 0)
       ELSE IF ~token_mint_pubkey.ok THEN PdaResult("InvalidInput", <<>>, 0)
       ELSE LET found == try_find_program_address(
                             <<token_mint_pubkey.bytes, TokenProgramBytes,
                               wallet_pubkey.bytes>>,
                             AssociatedTokenProgramBytes, on_curve)
            IN IF ~found.some THEN PdaResult("Panic", <<>>, 0)
               ELSE PdaResult("Ok", to_string(found.address), 0)

\* ProgramDerivedAddress::find_associated_token_address
find_associated_token_address(wallet_address, token_mint, on_curve) ==
    LET wallet_pubkey == from_str(wallet_address)
        token_mint_pubkey == from_str(token_mint)
    IN IF ~wallet_pubkey.ok THEN PdaResult("InvalidInput", <<>>, 0)
       ELSE IF ~token_mint_pubkey.ok THEN PdaResult("InvalidInput", <<>>, 0)
       ELSE LET found == try_find_program_address(
                             <<wallet_pubkey.bytes, TokenProgramBytes,
                               token_mint_pubkey.bytes>>,
                             AssociatedTokenProgramBytes, on_curve)
            IN IF ~found.some THEN PdaResult("Panic", <<>>, 0)
               ELSE PdaResult("Ok", to_string(found.address), 0)

\* solana_find_program_address: the null checks, then the call; a panic
\* leaves the extern "C" function by aborting the process
solana_find_program_address(null_pointer, seeds, program_id, on_curve) ==
    IF null_pointer THEN [ret |-> 0, status |-> "FfiError", address |-> <<>>, bump |-> 0]
    ELSE LET r == find_program_address(seeds, program_id, on_curve) IN
         IF r.status = "Ok"
         THEN [ret |-> 1, status |-> "Ok", address |-> r.address, bump |-> r.bump]
         ELSE IF r.status = "Panic"
         THEN [ret |-> 0, status |-> "Abort", address |-> <<>>, bump |-> 0]
         ELSE [ret |-> 0, status |-> r.status, address |-> <<>>, bump |-> 0]


(***************************************************************************)
(* PdaSpec: the derivation functions applied to seed lists at and around    *)
(* the limits, to well-formed and malformed program texts, and under        *)
(* on-curve predicates that put the highest off-curve bump at 255, in the   *)
(* middle, at 1, at 0 and nowhere.  last records the call and its result.   *)
(***************************************************************************)
\* n one-byte seeds
SeedList(n) == [i \in 1..n |-> <<i>>]

\* one seed of n bytes
LongSeed(n) == <<[j \in 1..n |-> 1]>>

SeedInputs ==
    {<<>>, <<<<1>>>>, <<<<1>>, <<2>>>>, <<<<2>>, <<1>>>>,
     SeedList(MAX_SEEDS - 1), SeedList(MAX_SEEDS), SeedList(MAX_SEEDS + 1),
     LongSeed(MAX_SEED_LEN), LongSeed(MAX_SEED_LEN + 1)}

\* the final bytes whose candidate lies on the curve
CurveInputs ==
    {{}, {U8_MAX}, 129..U8_MAX, 2..U8_MAX, 1..U8_MAX, 0..U8_MAX,
     (0..U8_MAX) \ {7, 200}}

PdaCall(op, seeds, program, wallet, mint, on_curve, r) ==
    [op |-> op, seeds |-> seeds, program |-> program, wallet |-> wallet,
     mint |-> mint, on_curve |-> on_curve, status |-> r.status,
     address |-> r.address, bump |-> r.bump]

FindProgramAddressCalls ==
    {PdaCall("find_program_address", seeds, p, <<>>, <<>>, c,
             find_program_address(seeds, p, c)) :
        seeds \in SeedInputs, p \in {TP, T1, BadCharText}, c \in CurveInputs}

CreateProgramAddressCalls ==
    {PdaCall("create_program_address", seeds, p, <<>>, <<>>, c,
             create_program_address(seeds, p, c)) :
        seeds \in SeedInputs \cup {<<<<1>>, <<200>>>>, <<<<1>>, <<U8_MAX>>>>},
        p \in {TP, T1, ShortText}, c \in CurveInputs}

FindAssociatedTokenAddressCalls ==
    {PdaCall("find_associated_token_address", <<>>, <<>>, w, m, c,
             find_associated_token_address(w, m, c)) :
        w \in {T1, T2, TP, BadCharText}, m \in {T1, T2, TP, ShortText},
        c \in CurveInputs}

FfiFindProgramAddressCalls ==
    {PdaCall("solana_find_program_address", seeds, p, <<>>, <<>>, c,
             solana_find_program_address(null_pointer, seeds, p, c)) :
        null_pointer \in BOOLEAN,
        seeds \in {<<>>, <<<<1>>>>, SeedList(MAX_SEEDS + 1), LongSeed(MAX_SEED_LEN + 1)},
        p \in {TP, BadCharText}, c \in CurveInputs}

FindProgramAddress ==
    \E call \in FindProgramAddressCalls : last' = call /\ UNCHANGED <<tx, builder, account>>

CreateProgramAddress ==
    \E call \in CreateProgramAddressCalls : last' = call /\ UNCHANGED <<tx, builder, account>>

FindAssociatedTokenAddress ==
    \E call \in FindAssociatedTokenAddressCalls : last' = call /\ UNCHANGED <<tx, builder, account>>

FfiFindProgramAddress ==
    \E call \in FfiFindProgramAddressCalls : last' = call /\ UNCHANGED <<tx, builder, account>>

PdaInit ==
    /\ tx = None
    /\ builder = None
    /\ account = None
    /\ last = PdaCall("new", <<>>, <<>>, <<>>, <<>>, {}, PdaResult("Ok", <<>>, 0))

PdaNext ==
    \/ FindProgramAddress
    \/ CreateProgramAddress
    \/ FindAssociatedTokenAddress
    \/ FfiFindProgramAddress

PdaSpec == PdaInit /\ [][PdaNext]_vars

(***************************************************************************)
(* The other call sites that parse an address: Account::from_pubkey,        *)
(* InstructionBuilder::build and the RPC wrappers.                          *)
(***************************************************************************)
\* Account::from_pubkey
Account_from_pubkey(pubkey_str) ==
    LET pubkey == from_str(pubkey_str) IN
    IF ~pubkey.ok THEN [status |-> "InvalidInput", pubkey |-> None, keypair |-> None]
    ELSE [status |-> "Ok", pubkey |-> pubkey.bytes, keypair |-> None]

\* InstructionBuilder::build over the program id, accounts and data collected
InstructionBuilder_build(program_id, accounts, data) ==
    LET program == from_str(program_id)
        parsed == [i \in 1..Len(accounts) |-> from_str(accounts[i][1])]
    IN IF ~program.ok THEN [status |-> "InvalidInput", instruction |-> None]
       ELSE IF \E i \in 1..Len(accounts) : ~parsed[i].ok
       THEN [status |-> "InvalidInput", instruction |-> None]
       ELSE [status |-> "Ok",
             instruction |->
                 Instruction(program.bytes,
                             [i \in 1..Len(accounts) |->
                                 AccountMeta(parsed[i].bytes, accounts[i][2],
                                             accounts[i][3])],
                             data)]

\* the RpcClient wrappers taking one address (get_balance, get_account_data,
\* get_token_account_balance, get_account_info, get_program_accounts): the
\* address is parsed, then the node is asked; reply is how that call ends
RpcAddressOps ==
    {"get_balance", "get_account_data", "get_token_account_balance",
     "get_account_info", "get_program_accounts"}

RpcReplies == {"Ok", "RpcError"}

rpc_with_pubkey(pubkey_str, reply) ==
    IF ~from_str(pubkey_str).ok THEN "InvalidInput" ELSE reply

\* RpcClient::get_multiple_accounts
get_multiple_accounts(pubkeys, reply) ==
    IF \E i \in 1..Len(pubkeys) : ~from_str(pubkeys[i]).ok THEN "InvalidInput"
    ELSE reply

(***************************************************************************)
(* InputSpec: the calls that take address or checkpoint texts, each made    *)
(* with well-formed and malformed texts at every argument position.  last   *)
(* records the operation, the texts it was given and the status returned.   *)
(***************************************************************************)
MaxListed == 3

\* decodes to one byte more than an address has
LongText == to_string([j \in 1..(PUBKEY_BYTES + 1) |-> j])

OkCheckpoint == to_string(Hash1)

ListedAccountInputs ==
    SeqsUpTo({<<T1, FALSE, TRUE>>, <<EmptyText, FALSE, FALSE>>}, MaxListed)

Texts(accounts) == [i \in 1..Len(accounts) |-> accounts[i][1]]

InputCall(op, status, texts) == [op |-> op, status |-> status, texts |-> texts]

\* a build_* call: the texts it is given and what the build answers
InputBuild(texts, r) == [texts |-> texts, result |-> r]

BuildTransferInputs ==
    {InputBuild(<<f, to, c>>, build_transfer(f, to, 1000, c)) :
        f \in {T1, EmptyText, ShortText}, to \in {T2, LongText, BadCharText},
        c \in {OkCheckpoint, EmptyText, BadCharText}}

BuildTokenTransferInputs ==
    {InputBuild(<<p, s, d, w, c>>, build_token_transfer(p, s, d, w, n, c)) :
        p \in {EmptyText, TP, ShortText}, s \in {T1, EmptyText},
        d \in {T2, BadCharText}, w \in {T3, T1, LongText}, n \in Amounts,
        c \in {OkCheckpoint, ShortText}}

BuildProgramCallInputs ==
    {InputBuild(<<p>> \o Texts(a) \o <<f, c>>, build_program_call(p, a, <<7>>, c, f)) :
        p \in {TP, EmptyText}, a \in ListedAccountInputs, f \in {T1, LongText},
        c \in {OkCheckpoint, EmptyText}}

BuildWithInstructionsInputs ==
    {InputBuild(<<f, c>>, build_with_instructions(ixs, f, c)) :
        ixs \in {<<>>, <<system_instruction_transfer(K1, K2, 1000)>>},
        f \in {T1, EmptyText, BadCharText}, c \in {OkCheckpoint, ShortText, LongText}}

AccountFromPubkeyInputs ==
    {InputCall("from_pubkey", Account_from_pubkey(t).status, <<t>>) :
        t \in {T1, T2, EmptyText, ShortText, LongText, BadCharText}}

InstructionBuilderBuildInputs ==
    {InputCall("InstructionBuilder::build",
               InstructionBuilder_build(p, a, <<7>>).status, <<p>> \o Texts(a)) :
        p \in {TP, ShortText}, a \in ListedAccountInputs}

FindProgramAddressInputs ==
    {InputCall("find_program_address", find_program_address(seeds, p, {}).status, <<p>>) :
        seeds \in {<<>>, <<<<1>>>>},
        p \in {TP, EmptyText, ShortText, LongText, BadCharText}}

CreateProgramAddressInputs ==
    {InputCall("create_program_address",
               create_program_address(seeds, p, {}).status, <<p>>) :
        seeds \in {<<>>, <<<<1>>>>},
        p \in {TP, EmptyText, ShortText, LongText, BadCharText}}

FindAssociatedTokenAddressInputs ==
    {InputCall("find_associated_token_address",
               find_associated_token_address(w, m, {}).status, <<w, m>>) :
        w \in {T1, EmptyText, LongText}, m \in {T2, ShortText, BadCharText}}

RpcWithPubkeyInputs ==
    {InputCall(op, rpc_with_pubkey(t, reply), <<t>>) :
        op \in RpcAddressOps, t \in {T1, EmptyText, ShortText, LongText, BadCharText},
        reply \in RpcReplies}

RpcGetMultipleAccountsInputs ==
    {InputCall("get_multiple_accounts", get_multiple_accounts(ts, reply), ts) :
        ts \in SeqsUpTo({T1, BadCharText}, MaxListed), reply \in RpcReplies}

BuildTransferInput ==
    \E call \in BuildTransferInputs :
        LET o == set_tx(tx, call.result) IN
        /\ tx' = o.tx
        /\ UNCHANGED <<builder, account>>
        /\ last' = InputCall("build_transfer", o.status, call.texts)

BuildTokenTransferInput ==
    \E call \in BuildTokenTransferInputs :
        LET o == set_tx(tx, call.result) IN
        /\ tx' = o.tx
        /\ UNCHANGED <<builder, account>>
        /\ last' = InputCall("build_token_transfer", o.status, call.texts)

BuildProgramCallInput ==
    \E call \in BuildProgramCallInputs :
        LET o == set_tx(tx, call.result) IN
        /\ tx' = o.tx
        /\ UNCHANGED <<builder, account>>
        /\ last' = InputCall("build_program_call", o.status, call.texts)

BuildWithInstructionsInput ==
    \E call \in BuildWithInstructionsInputs :
        LET o == set_tx(tx, call.result) IN
        /\ tx' = o.tx
        /\ UNCHANGED <<builder, account>>
        /\ last' = InputCall("build_with_instructions", o.status, call.texts)

AccountFromPubkey ==
    \E call \in AccountFromPubkeyInputs :
        last' = call /\ UNCHANGED <<tx, builder, account>>

InstructionBuilderBuild ==
    \E call \in InstructionBuilderBuildInputs :
        last' = call /\ UNCHANGED <<tx, builder, account>>

FindProgramAddressInput ==
    \E call \in FindProgramAddressInputs :
        last' = call /\ UNCHANGED <<tx, builder, account>>

CreateProgramAddressInput ==
    \E call \in CreateProgramAddressInputs :
        last' = call /\ UNCHANGED <<tx, builder, account>>

FindAssociatedTokenAddressInput ==
    \E call \in FindAssociatedTokenAddressInputs :
        last' = call /\ UNCHANGED <<tx, builder, account>>

RpcWithPubkey ==
    \E call \in RpcWithPubkeyInputs :
        last' = call /\ UNCHANGED <<tx, builder, account>>

RpcGetMultipleAccounts ==
    \E call \in RpcGetMultipleAccountsInputs :
        last' = call /\ UNCHANGED <<tx, builder, account>>

InputInit ==
    /\ tx = None
    /\ builder = None
    /\ account = None
    /\ last = InputCall("new", "Ok", <<>>)

InputNext ==
    \/ BuildTransferInput
    \/ BuildTokenTransferInput
    \/ BuildProgramCallInput
    \/ BuildWithInstructionsInput
    \/ AccountFromPubkey
    \/ InstructionBuilderBuild
    \/ FindProgramAddressInput
    \/ CreateProgramAddressInput
    \/ FindAssociatedTokenAddressInput
    \/ RpcWithPubkey
    \/ RpcGetMultipleAccounts

InputSpec == InputInit /\ [][InputNext]_vars

(***************************************************************************)
(* instruction.rs: InstructionBuilder and TokenInstructions.  A u64 amount  *)
(* is held as U64_LIMBS 16-bit limbs, least significant first, so that the  *)
(* whole range 0 .. 2^64 - 1 is within reach of the model's integers.       *)
(***************************************************************************)
U64_LIMBS == 4
LIMB_BYTES == 2
LIMB_RANGE == 65536
U64_BYTES == U64_LIMBS * LIMB_BYTES

\* the u64 of a small integer
RECURSIVE LimbsOf(_, _)
LimbsOf(n, count) ==
    IF count = 0 THEN <<>>
    ELSE <<n % LIMB_RANGE>> \o LimbsOf(n \div LIMB_RANGE, count - 1)

U64(n) == LimbsOf(n, U64_LIMBS)

U64_MAX == [i \in 1..U64_LIMBS |-> LIMB_RANGE - 1]

\* variant: the amount goes through a 32-bit integer first
u64_to_le_bytes_truncating(amount) ==
    Flatten([i \in 1..U64_LIMBS |->
                to_le_bytes(IF i <= 2 THEN amount[i] ELSE 0, LIMB_BYTES)])

\* u64::to_le_bytes
u64_to_le_bytes(amount) ==
    Flatten([i \in 1..U64_LIMBS |-> to_le_bytes(amount[i], LIMB_BYTES)])

\* u64::from_le_bytes, the reading the token program makes of the payload
u64_from_le_bytes(bytes) ==
    [i \in 1..U64_LIMBS |->
        bytes[LIMB_BYTES * i - 1] + BYTE_RANGE * bytes[LIMB_BYTES * i]]

\* InstructionBuilder::new
InstructionBuilder_new(program_id) ==
    [program_id |-> program_id, accounts |-> <<>>, data |-> <<>>]

\* variant: an address already listed is not listed again
add_account_deduplicating(b, pubkey, is_signer, is_writable) ==
    IF \E i \in 1..Len(b.accounts) : b.accounts[i][1] = pubkey THEN b
    ELSE [b EXCEPT !.accounts = Append(@, <<pubkey, is_signer, is_writable>>)]

\* InstructionBuilder::add_account
add_account(b, pubkey, is_signer, is_writable) ==
    [b EXCEPT !.accounts = Append(@, <<pubkey, is_signer, is_writable>>)]

\* InstructionBuilder::set_data
set_data(b, data) == [b EXCEPT !.data = data]

\* InstructionBuilder::build on the builder b
build(b) == InstructionBuilder_build(b.program_id, b.accounts, b.data)

TOKEN_TRANSFER_INDEX == 3
TOKEN_APPROVE_INDEX == 4
TOKEN_REVOKE_INDEX == 5
TOKEN_MINT_TO_INDEX == 7
TOKEN_BURN_INDEX == 8
TOKEN_CLOSE_ACCOUNT_INDEX == 9

\* TokenInstructions::transfer
TokenInstructions_transfer(source, destination, owner, amount) ==
    LET data == <<TOKEN_TRANSFER_INDEX>> \o u64_to_le_bytes(amount) IN
    build(set_data(
        add_account(
            add_account(
                add_account(InstructionBuilder_new(TOKEN_PROGRAM_ID),
                            source, FALSE, TRUE),
                destination, FALSE, TRUE),
            owner, TRUE, FALSE),
        data))

\* variant: the delegate is listed writable
TokenInstructions_approve_writable_delegate(source, delegate, owner, amount) ==
    LET data == <<TOKEN_APPROVE_INDEX>> \o u64_to_le_bytes(amount) IN
    build(set_data(
        add_account(
            add_account(
                add_account(InstructionBuilder_new(TOKEN_PROGRAM_ID),
                            source, FALSE, TRUE),
                delegate, FALSE, TRUE),
            owner, TRUE, FALSE),
        data))

\* TokenInstructions::approve
TokenInstructions_approve(source, delegate, owner, amount) ==
    LET data == <<TOKEN_APPROVE_INDEX>> \o u64_to_le_bytes(amount) IN
    build(set_data(
        add_account(
            add_account(
                add_account(InstructionBuilder_new(TOKEN_PROGRAM_ID),
                            source, FALSE, TRUE),
                delegate, FALSE, FALSE),
            owner, TRUE, FALSE),
        data))

\* TokenInstructions::revoke
TokenInstructions_revoke(source, owner) ==
    LET data == <<TOKEN_REVOKE_INDEX>> IN
    build(set_data(
        add_account(
            add_account(InstructionBuilder_new(TOKEN_PROGRAM_ID),
                        source, FALSE, TRUE),
            owner, TRUE, FALSE),
        data))

\* TokenInstructions::mint_to
TokenInstructions_mint_to(mint, destination, authority, amount) ==
    LET data == <<TOKEN_MINT_TO_INDEX>> \o u64_to_le_bytes(amount) IN
    build(set_data(
        add_account(
            add_account(
                add_account(InstructionBuilder_new(TOKEN_PROGRAM_ID),
                            mint, FALSE, TRUE),
                destination, FALSE, TRUE),
            authority, TRUE, FALSE),
        data))

\* TokenInstructions::burn
TokenInstructions_burn(token_account, mint, owner, amount) ==
    LET data == <<TOKEN_BURN_INDEX>> \o u64_to_le_bytes(amount) IN
    build(set_data(
        add_account(
            add_account(
                add_account(InstructionBuilder_new(TOKEN_PROGRAM_ID),
                            token_account, FALSE, TRUE),
                mint, FALSE, TRUE),
            owner, TRUE, FALSE),
        data))

\* TokenInstructions::close_account
TokenInstructions_close_account(token_account, destination, owner) ==
    LET data == <<TOKEN_CLOSE_ACCOUNT_INDEX>> IN
    build(set_data(
        add_account(
            add_account(
                add_account(InstructionBuilder_new(TOKEN_PROGRAM_ID),
                            token_account, FALSE, TRUE),
                destination, FALSE, TRUE),
            owner, TRUE, FALSE),
        data))

(***************************************************************************)
(* InstructionSpec: an InstructionBuilder driven through new, add_account,  *)
(* set_data and build, and the TokenInstructions functions applied to       *)
(* amounts across the u64 range.  builder is the InstructionBuilder; last   *)
(* records the call, its arguments and the instruction or error returned.   *)
(***************************************************************************)
MaxAppended == 2

\* accounts to append: one address twice with different flags, another
\* address, and a malformed text
AppendInputs ==
    {<<T1, FALSE, TRUE>>, <<T1, TRUE, FALSE>>, <<T2, FALSE, FALSE>>,
     <<BadCharText, FALSE, FALSE>>}

PayloadInputs == {<<7>>, <<1, 2>>}

AmountInputs ==
    {U64(0), U64(1), U64(1000), U64(LIMB_RANGE), <<0, 0, 1, 0>>,
     <<LIMB_RANGE - 1, LIMB_RANGE - 1, 0, 0>>, <<0, 0, 0, 32768>>, U64_MAX}

NoAmount == <<>>

\* the three addresses of a token instruction, well-formed and with one
\* malformed text
TokenTexts == {<<T1, T2, T3>>, <<T2, T1, T3>>, <<T1, BadCharText, T3>>}

InstructionCall(op, texts, amount, data, r) ==
    [op |-> op, texts |-> texts, amount |-> amount, data |-> data,
     status |-> r.status, instruction |-> r.instruction]

NoResult == [status |-> "Ok", instruction |-> None]

TokenTransferCalls ==
    {InstructionCall("transfer", t, a, <<>>,
                     TokenInstructions_transfer(t[1], t[2], t[3], a)) :
        t \in TokenTexts, a \in AmountInputs}

TokenApproveCalls ==
    {InstructionCall("approve", t, a, <<>>,
                     TokenInstructions_approve(t[1], t[2], t[3], a)) :
        t \in TokenTexts, a \in {U64(1000), U64_MAX}}

TokenRevokeCalls ==
    {InstructionCall("revoke", <<t[1], t[2]>>, NoAmount, <<>>,
                     TokenInstructions_revoke(t[1], t[2])) :
        t \in TokenTexts}

TokenMintToCalls ==
    {InstructionCall("mint_to", t, a, <<>>,
                     TokenInstructions_mint_to(t[1], t[2], t[3], a)) :
        t \in TokenTexts, a \in {U64(1000), U64_MAX}}

TokenBurnCalls ==
    {InstructionCall("burn", t, a, <<>>,
                     TokenInstructions_burn(t[1], t[2], t[3], a)) :
        t \in TokenTexts, a \in {U64(1000), U64_MAX}}

TokenCloseAccountCalls ==
    {InstructionCall("close_account", t, NoAmount, <<>>,
                     TokenInstructions_close_account(t[1], t[2], t[3])) :
        t \in TokenTexts}

NewBuilder ==
    \E p \in {TP, ShortText} :
        /\ builder' = InstructionBuilder_new(p)
        /\ last' = InstructionCall("new", <<p>>, NoAmount, <<>>, NoResult)
        /\ UNCHANGED <<tx, account>>

AddAccount ==
    /\ builder # None
    /\ Len(builder.accounts) < MaxAppended
    /\ \E a \in AppendInputs :
        /\ builder' = add_account(builder, a[1], a[2], a[3])
        /\ last' = InstructionCall("add_account", <<a>>, NoAmount, <<>>, NoResult)
        /\ UNCHANGED <<tx, account>>

SetData ==
    /\ builder # None
    /\ \E d \in PayloadInputs :
        /\ builder' = set_data(builder, d)
        /\ last' = InstructionCall("set_data", <<>>, NoAmount, d, NoResult)
        /\ UNCHANGED <<tx, account>>

Build ==
    /\ builder # None
    /\ last' = InstructionCall("build", <<>>, NoAmount, <<>>, build(builder))
    /\ UNCHANGED <<tx, builder, account>>

TokenTransfer ==
    \E call \in TokenTransferCalls : last' = call /\ UNCHANGED <<tx, builder, account>>

TokenApprove ==
    \E call \in TokenApproveCalls : last' = call /\ UNCHANGED <<tx, builder, account>>

TokenRevoke ==
    \E call \in TokenRevokeCalls : last' = call /\ UNCHANGED <<tx, builder, account>>

TokenMintTo ==
    \E call \in TokenMintToCalls : last' = call /\ UNCHANGED <<tx, builder, account>>

TokenBurn ==
    \E call \in TokenBurnCalls : last' = call /\ UNCHANGED <<tx, builder, account>>

TokenCloseAccount ==
    \E call \in TokenCloseAccountCalls : last' = call /\ UNCHANGED <<tx, builder, account>>

InstructionInit ==
    /\ tx = None
    /\ builder = None
    /\ account = None
    /\ last = InstructionCall("none", <<>>, NoAmount, <<>>, NoResult)

InstructionNext ==
    \/ NewBuilder
    \/ AddAccount
    \/ SetData
    \/ Build
    \/ TokenTransfer
    \/ TokenApprove
    \/ TokenRevoke
    \/ TokenMintTo
    \/ TokenBurn
    \/ TokenCloseAccount

InstructionSpec == InstructionInit /\ [][InstructionNext]_vars

(***************************************************************************)
(* account.rs: Account.  An Account is [pubkey, keypair], either field None *)
(* when absent; a constructor answers [status, pubkey, keypair].            *)
(***************************************************************************)
\* Account::new
Account_new == [status |-> "Ok", pubkey |-> None, keypair |-> None]

\* Account::from_private_key
Account_from_private_key(private_key) ==
    LET keypair == Keypair_from_bytes(private_key) IN
    IF ~keypair.ok THEN [status |-> "WalletError", pubkey |-> None, keypair |-> None]
    ELSE [status |-> "Ok", pubkey |-> keypair.public,
          keypair |-> [secret |-> keypair.secret, public |-> keypair.public]]

\* Account::generate, for the secret Keypair::new() happens to draw
Account_generate(secret) ==
    [status |-> "Ok", pubkey |-> DerivePublic(secret),
     keypair |-> [secret |-> secret, public |-> DerivePublic(secret)]]

Answer(status, value) == [status |-> status, value |-> value]

\* Account::get_pubkey
get_pubkey(a) ==
    IF a.pubkey = None THEN Answer("WalletError", <<>>)
    ELSE Answer("Ok", to_string(a.pubkey))

\* Account::get_private_key: Keypair::to_bytes of the keypair held
get_private_key(a) ==
    IF a.keypair = None THEN Answer("WalletError", <<>>)
    ELSE Answer("Ok", a.keypair.secret \o a.keypair.public)

\* Account::has_private_key
has_private_key(a) == a.keypair # None

\* Account::get_keypair: the keypair held, shown as its bytes
get_keypair(a) ==
    IF a.keypair = None THEN Answer("WalletError", <<>>)
    ELSE Answer("Ok", a.keypair.secret \o a.keypair.public)

(***************************************************************************)
(* AccountSpec: account is the Account the latest constructor returned      *)
(* (None when it returned an error); the getters are then called on it.     *)
(* last records the call, its argument and its answer.                      *)
(***************************************************************************)
MaxSecrets == 3

\* texts over the first, a low and the last symbol of the alphabet, up to one
\* symbol longer than any address renders to, and one with a foreign symbol
SYMBOLS == {0, 5, ALPHABET_SIZE - 1}

AddressTextInputs ==
    UNION {[1..n -> SYMBOLS] : n \in 1..(MAX_BASE58_LEN + 1)}
    \cup {EmptyText, BadCharText, T1, T2}

\* key material: well-formed keypairs, half a keypair, a keypair with a byte
\* after it, and the secret of one keypair with the public half of another
PrivateKeyInputs ==
    {KeypairBytes(i) : i \in 1..MaxSecrets}
    \cup {SecretOf(1), Append(KeypairBytes(1), 0),
          SecretOf(1) \o DerivePublic(SecretOf(2))}

AccountOf(r) ==
    IF r.status = "Ok" THEN [pubkey |-> r.pubkey, keypair |-> r.keypair] ELSE None

AccountCall(op, arg, status, value) ==
    [op |-> op, arg |-> arg, status |-> status, value |-> value]

Constructed(op, arg, r) ==
    [call |-> AccountCall(op, arg, r.status, <<>>), account |-> AccountOf(r)]

FromPubkeyCalls ==
    {Constructed("from_pubkey", t, Account_from_pubkey(t)) : t \in AddressTextInputs}

FromPrivateKeyCalls ==
    {Constructed("from_private_key", k, Account_from_private_key(k)) :
        k \in PrivateKeyInputs}

GenerateCalls ==
    {Constructed("generate", <<>>, Account_generate(SecretOf(i))) : i \in 1..MaxSecrets}

NewAccount ==
    /\ account' = AccountOf(Account_new)
    /\ last' = AccountCall("new", <<>>, "Ok", <<>>)
    /\ UNCHANGED <<tx, builder>>

FromPubkey ==
    \E c \in FromPubkeyCalls :
        account' = c.account /\ last' = c.call /\ UNCHANGED <<tx, builder>>

FromPrivateKey ==
    \E c \in FromPrivateKeyCalls :
        account' = c.account /\ last' = c.call /\ UNCHANGED <<tx, builder>>

Generate ==
    \E c \in GenerateCalls :
        account' = c.account /\ last' = c.call /\ UNCHANGED <<tx, builder>>

GetPubkey ==
    /\ account # None
    /\ last' = AccountCall("get_pubkey", <<>>, get_pubkey(account).status,
                           get_pubkey(account).value)
    /\ UNCHANGED <<tx, builder, account>>

GetPrivateKey ==
    /\ account # None
    /\ last' = AccountCall("get_private_key", <<>>, get_private_key(account).status,
                           get_private_key(account).value)
    /\ UNCHANGED <<tx, builder, account>>

HasPrivateKey ==
    /\ account # None
    /\ last' = AccountCall("has_private_key", <<>>,
                           IF has_private_key(account) THEN "true" ELSE "false", <<>>)
    /\ UNCHANGED <<tx, builder, account>>

GetKeypair ==
    /\ account # None
    /\ last' = AccountCall("get_keypair", <<>>, get_keypair(account).status,
                           get_keypair(account).value)
    /\ UNCHANGED <<tx, builder, account>>

AccountInit ==
    /\ tx = None
    /\ builder = None
    /\ account = None
    /\ last = AccountCall("none", <<>>, "Ok", <<>>)

AccountNext ==
    \/ NewAccount
    \/ FromPubkey
    \/ FromPrivateKey
    \/ Generate
    \/ GetPubkey
    \/ GetPrivateKey
    \/ HasPrivateKey
    \/ GetKeypair

AccountSpec == AccountInit /\ [][AccountNext]_vars

(***************************************************************************)
(* Vocabulary of the claims                                                 *)
(***************************************************************************)
BuildOps ==
    {"build_transfer", "build_token_transfer", "build_program_call",
     "build_with_instructions"}

SignOps == {"sign", "sign_with_keypairs"}

\* the latest call was a build_* that returned Ok
BuiltOk == last.op \in BuildOps /\ last.status = "Ok"

WellFormed(keys) == \A i \in 1..Len(keys) : Keypair_from_bytes(keys[i]).ok

\* the addresses a build_* call asks signatures of: the fee payer and every
\* address some instruction marks is_signer
RequestedSigners(ixs, payer) ==
    {payer} \cup {AllMetas(ixs)[i].pubkey :
                     i \in {j \in 1..Len(AllMetas(ixs)) : AllMetas(ixs)[j].is_signer}}

\* Message::is_signer and Message::is_writable of the account at table
\* entry i (counted from 0), as the ledger reads the header
EntryIsSigner(m, i) == i < m.header.num_required_signatures

EntryIsWritable(m, i) ==
    \/ i < m.header.num_required_signatures - m.header.num_readonly_signed_accounts
    \/ /\ i >= m.header.num_required_signatures
       /\ i < Len(m.account_keys) - m.header.num_readonly_unsigned_accounts

(***************************************************************************)
(* C1: after a successful build_* called with checkpoint text c the         *)
(* message's recent checkpoint is the value c parses to, and a following    *)
(* sign signs message bytes that embed that checkpoint.                     *)
(***************************************************************************)
C1_SignedOverCheckpoint ==
    (BuiltOk /\ last'.op = "sign" /\ last'.status = "Ok") =>
        \A i \in 1..Len(tx'.signatures) :
            SlotFilled(tx', i) =>
                tx'.signatures[i] =
                    sign_message(
                        Keypair_from_bytes(last'.keys[1]),
                        serialize_message(
                            [tx.message EXCEPT
                                !.recent_blockhash = from_str(last.text).bytes]))

C1_CheckpointRecorded ==
    /\ [](BuiltOk =>
            tx # None /\ tx.message.recent_blockhash = from_str(last.text).bytes)
    /\ [][C1_SignedOverCheckpoint]_vars

(***************************************************************************)
(* C2: on a built transaction with two or more signers, sign with the fee   *)
(* payer's secret alone succeeds, fills exactly the fee payer's slot and    *)
(* leaves the builder PartiallySigned; a sign with the key of the one       *)
(* signer still missing makes it FullySigned.                               *)
(***************************************************************************)
C2_FirstOfSeveral ==
    (/\ last'.op = "sign"
     /\ BuilderState(tx) = "Built"
     /\ Cardinality(SignerSlots(tx)) >= 2
     /\ WellFormed(last'.keys)
     /\ Keypair_from_bytes(last'.keys[1]).public = tx.message.account_keys[1])
    => (/\ last'.status = "Ok"
        /\ tx' # None
        /\ tx'.message = tx.message
        /\ SlotFilled(tx', 1)
        /\ \A i \in SignerSlots(tx) \ {1} : tx'.signatures[i] = SignatureDefault
        /\ BuilderState(tx') = "PartiallySigned")

C2_LastOfSeveral ==
    (/\ last'.op = "sign"
     /\ BuilderState(tx) = "PartiallySigned"
     /\ WellFormed(last'.keys)
     /\ \E j \in SignerSlots(tx) :
           /\ Keypair_from_bytes(last'.keys[1]).public = tx.message.account_keys[j]
           /\ \A i \in SignerSlots(tx) : SlotFilled(tx, i) <=> i # j)
    => (last'.status = "Ok" /\ BuilderState(tx') = "FullySigned")

C2_PartialThenFull == [][C2_FirstOfSeveral /\ C2_LastOfSeveral]_vars

(***************************************************************************)
(* C3: a sign or sign_with_keypairs that fails on a built transaction       *)
(* leaves the builder as it was, and serialize returns the same bytes.      *)
(***************************************************************************)
C3_FailedSignKeepsState ==
    [][(last'.op \in SignOps /\ last'.status # "Ok" /\ tx # None)
       => (tx' = tx /\ serialize(tx') = serialize(tx))]_vars

(***************************************************************************)
(* C4: on an Empty builder sign and sign_with_keypairs with well-formed     *)
(* keys, serialize, get_fee_estimate and get_transaction each fail with     *)
(* TransactionError, and the builder is still Empty.                        *)
(***************************************************************************)
C4_EmptyRejects ==
    (/\ last.before = "Empty"
     /\ last.op \in SignOps \cup {"serialize", "get_fee_estimate", "get_transaction"}
     /\ WellFormed(last.keys))
    => (last.status = "TransactionError" /\ tx = None)

C4_Witness ==
    /\ last.before = "Empty"
    /\ last.op = "sign_with_keypairs"
    /\ last.keys = <<KeypairBytes(1), KeypairBytes(2)>>
    /\ last.status = "TransactionError"
    /\ tx = None

(***************************************************************************)
(* C5: sign or sign_with_keypairs with a malformed key at any position      *)
(* fails with WalletError and leaves the builder's transaction untouched,   *)
(* no slot filled even for well-formed keys before the malformed one.       *)
(***************************************************************************)
C5_MalformedKeyNoEffect ==
    [][(last'.op \in SignOps /\ ~WellFormed(last'.keys))
       => (last'.status = "WalletError" /\ tx' = tx)]_vars

C5_Witness ==
    /\ last.op = "sign_with_keypairs"
    /\ last.keys = <<KeypairBytes(1), MalformedKey>>
    /\ last.status = "WalletError"
    /\ last.before = "Built"
    /\ tx # None
    /\ tx.message.account_keys[1] = K1
    /\ tx.signatures[1] = SignatureDefault

(***************************************************************************)
(* C6: from_serialized(serialize(x)) on a fresh builder succeeds and yields *)
(* x (account table, instructions, checkpoint, signature slots), and        *)
(* serialize does not change x.                                             *)
(***************************************************************************)
C6_RoundTrip ==
    /\ [](tx # None =>
            /\ serialize(tx).status = "Ok"
            /\ from_serialized(None, serialize(tx).bytes) = Outcome(tx, "Ok"))
    /\ [][last'.op = "serialize" => tx' = tx]_vars

C6_Witness ==
    /\ last.op = "serialize"
    /\ last.status = "Ok"
    /\ BuilderState(tx) = "FullySigned"
    /\ Cardinality(SignerSlots(tx)) = 2
    /\ from_serialized(None, last.bytes).tx = tx

C8_Step ==
    (/\ last'.op \in SignOps
     /\ tx # None
     /\ WellFormed(last'.keys)
     /\ \A i \in 1..Len(last'.keys) :
           \E j \in SignerSlots(tx) :
               Keypair_from_bytes(last'.keys[i]).public = tx.message.account_keys[j])
    => LET \* slot j is filled once the keys have signed: it was filled
           \* before, or the key of its account is among the keys given
           FilledThen(j) ==
               \/ SlotFilled(tx, j)
               \/ \E i \in 1..Len(last'.keys) :
                     Keypair_from_bytes(last'.keys[i]).public = tx.message.account_keys[j]
       IN
       /\ last'.status = "Ok" <=> \A j \in SignerSlots(tx) : FilledThen(j)
       /\ last'.status = "Ok" =>
             /\ tx' # None
             /\ tx'.message = tx.message
             /\ \A j \in SignerSlots(tx) : SlotFilled(tx', j)
       /\ last'.status # "Ok" => last'.status = "TransactionError"

C8_FullySignedIffAllSlots == [][C8_Step]_vars

C8_Witness ==
    /\ last.op = "sign_with_keypairs"
    /\ last.status = "Ok"
    /\ last.before = "Built"
    /\ Cardinality(SignerSlots(tx)) = 2
    /\ \A j \in SignerSlots(tx) : SlotFilled(tx, j)

C10_PayerFirst ==
    BuiltOk =>
        /\ Len(tx.message.account_keys) >= 1
        /\ tx.message.account_keys[1] = last.payer
        /\ EntryIsSigner(tx.message, 0)
        /\ EntryIsWritable(tx.message, 0)
        /\ \A i \in 2..Len(tx.message.account_keys) :
              tx.message.account_keys[i] # last.payer

C10_Witness ==
    /\ BuiltOk
    /\ last.op = "build_program_call"
    /\ last.payer = K1
    /\ last.ixs[1].accounts =
           <<AccountMeta(K2, FALSE, TRUE), AccountMeta(K1, FALSE, FALSE)>>
    /\ tx.message.account_keys[1] = K1

(***************************************************************************)
(* C11: the compiled account table holds each address once, signers before  *)
(* non-signers, writable before read-only within each partition, and        *)
(* entries with equal flags in the order of their first appearance across   *)
(* the fee payer and the instructions' account lists.                       *)
(***************************************************************************)
\* the fee payer, then every account reference in the order given
FirstSeen(ixs, payer) ==
    <<payer>> \o [i \in 1..Len(AllMetas(ixs)) |-> AllMetas(ixs)[i].pubkey]

SameFlags(m, i, j) ==
    /\ EntryIsSigner(m, i - 1) = EntryIsSigner(m, j - 1)
    /\ EntryIsWritable(m, i - 1) = EntryIsWritable(m, j - 1)

\* no address twice, signers first, writable first within each partition
TablePartitioned(m) ==
    \A i, j \in 1..Len(m.account_keys) :
        /\ m.account_keys[i] = m.account_keys[j] => i = j
        /\ i < j =>
              /\ EntryIsSigner(m, j - 1) => EntryIsSigner(m, i - 1)
              /\ (EntryIsSigner(m, i - 1) = EntryIsSigner(m, j - 1)
                  /\ EntryIsWritable(m, j - 1)) => EntryIsWritable(m, i - 1)

C11_FirstSeenOrder ==
    BuiltOk =>
        /\ TablePartitioned(tx.message)
        /\ \A i, j \in 1..Len(tx.message.account_keys) :
              (/\ i < j
               /\ SameFlags(tx.message, i, j)
               /\ Position(FirstSeen(last.ixs, last.payer), tx.message.account_keys[i]) # 0
               /\ Position(FirstSeen(last.ixs, last.payer), tx.message.account_keys[j]) # 0)
              => Position(FirstSeen(last.ixs, last.payer), tx.message.account_keys[i])
                 < Position(FirstSeen(last.ixs, last.payer), tx.message.account_keys[j])

\* C11 as amended: each address once, signers before non-signers, writable
\* before read-only within each partition, the fee payer first, and the
\* other entries with equal flags in ascending order of their address bytes.
C11_AddressOrder ==
    BuiltOk =>
        /\ TablePartitioned(tx.message)
        /\ tx.message.account_keys[1] = last.payer
        /\ \A i, j \in 2..Len(tx.message.account_keys) :
              (i < j /\ SameFlags(tx.message, i, j))
              => PubkeyLess(tx.message.account_keys[i], tx.message.account_keys[j])

C11_Witness ==
    /\ BuiltOk
    /\ last.op = "build_program_call"
    /\ last.payer = K2
    /\ PubkeyLess(K1, K3)
    /\ last.ixs[1].accounts =
           <<AccountMeta(K3, FALSE, FALSE), AccountMeta(K1, FALSE, FALSE)>>
    /\ tx.message.account_keys = <<K2, ProgramP, K1, K3>>

(***************************************************************************)
(* C12: the compiled message keeps the instructions in the given order; in  *)
(* each, the i-th account index points at the table entry holding the       *)
(* address of the i-th account reference, the program index points at the   *)
(* program address, and the payload bytes are unchanged.                    *)
(***************************************************************************)
\* the table entry a compiled index (counted from 0) points at
EntryAt(m, index) ==
    IF index + 1 \in 1..Len(m.account_keys) THEN m.account_keys[index + 1] ELSE <<>>

C12_IndicesPointAtAddresses ==
    BuiltOk =>
        /\ Len(tx.message.instructions) = Len(last.ixs)
        /\ \A n \in 1..Len(last.ixs) :
              /\ tx.message.instructions[n].data = last.ixs[n].data
              /\ EntryAt(tx.message, tx.message.instructions[n].program_id_index)
                 = last.ixs[n].program_id
              /\ Len(tx.message.instructions[n].accounts) = Len(last.ixs[n].accounts)
              /\ \A i \in 1..Len(last.ixs[n].accounts) :
                    EntryAt(tx.message, tx.message.instructions[n].accounts[i])
                    = last.ixs[n].accounts[i].pubkey

C12_Witness ==
    /\ BuiltOk
    /\ last.op = "build_with_instructions"
    /\ last.payer = K2
    /\ last.ixs = <<Instruction(ProgramP, <<AccountMeta(K2, TRUE, FALSE)>>, <<7>>),
                    system_instruction_transfer(K1, K2, 1000)>>
    /\ tx.message.instructions[1].program_id_index
       # tx.message.instructions[2].program_id_index
    /\ tx.message.instructions[2].accounts = <<1, 0>>

(***************************************************************************)
(* C13: every call that is given a checkpoint or address text that fails    *)
(* to parse (empty, wrong length, bad character) fails with InvalidInput:   *)
(* the build_* calls, Account::from_pubkey, InstructionBuilder::build, the  *)
(* PDA functions and the RPC wrappers taking an address.                    *)
(*                                                                          *)
(* As stated (C13_AnyBadText) the property fails in one case: an empty      *)
(* token_program_id given to build_token_transfer is not parsed, it selects *)
(* TOKEN_PROGRAM_ID, and the call succeeds.  With that argument set aside   *)
(* (C13_BadTextInvalidInput) the property holds at every call site.         *)
(***************************************************************************)
Unparsable(texts) == \E i \in 1..Len(texts) : ~from_str(texts[i]).ok

\* the texts of a call that are parsed: all of them, except an empty
\* token_program_id of build_token_transfer
ParsedTexts(call) ==
    IF call.op = "build_token_transfer" /\ call.texts[1] = EmptyText
    THEN Tail(call.texts)
    ELSE call.texts

C13_AnyBadText == Unparsable(last.texts) => last.status = "InvalidInput"

C13_BadTextInvalidInput ==
    Unparsable(ParsedTexts(last)) => last.status = "InvalidInput"

C13_Witness ==
    /\ last.op = "build_program_call"
    /\ last.texts = <<TP, T1, EmptyText, T1, T1, OkCheckpoint>>
    /\ last.status = "InvalidInput"

(***************************************************************************)
(* C14: a build_* call that fails, whichever argument is malformed and      *)
(* wherever in the accounts list the malformed address stands, leaves the   *)
(* builder as it was: Empty stays Empty, and a built or signed transaction   *)
(* keeps its account table, instructions, checkpoint and signatures.        *)
(***************************************************************************)
C14_FailedBuildKeepsState ==
    [][(last'.op \in BuildOps /\ last'.status # "Ok") => tx' = tx]_vars

\* a fully signed transaction has survived a build_program_call rejected for
\* the middle one of three listed accounts
C14_Witness ==
    /\ last.op = "build_program_call"
    /\ last.status = "InvalidInput"
    /\ last.rejected = 2
    /\ last.before = "FullySigned"
    /\ BuilderState(tx) = "FullySigned"

(***************************************************************************)
(* C15: a build_* that succeeds on a builder already holding a built,        *)
(* partially signed or fully signed transaction replaces it entirely and    *)
(* leaves the builder in state Built: the account table and instruction     *)
(* list are those of the newly given instruction(s) alone, and every        *)
(* signature slot is the unsigned placeholder, so no signature made for the *)
(* previous message survives.                                               *)
(***************************************************************************)
C15_RebuildReplaces ==
    (BuiltOk /\ last.before \in {"Built", "PartiallySigned", "FullySigned"}) =>
        /\ BuilderState(tx) = "Built"
        /\ \A i \in 1..Len(tx.signatures) : tx.signatures[i] = SignatureDefault
        /\ {tx.message.account_keys[i] : i \in 1..Len(tx.message.account_keys)}
           = CompiledKeySet(last.ixs, last.payer)
        /\ Len(tx.message.instructions) = Len(last.ixs)
        /\ \A n \in 1..Len(last.ixs) :
              tx.message.instructions[n].data = last.ixs[n].data

\* a fully signed transaction has been replaced by a transfer paid by K2
C15_Witness ==
    /\ BuiltOk
    /\ last.op = "build_transfer"
    /\ last.before = "FullySigned"
    /\ last.payer = K2
    /\ Len(tx.signatures) = 1
    /\ tx.signatures[1] = SignatureDefault

(***************************************************************************)
(* C16: find_program_address tries the bumps 255, 254, ..., 0 in           *)
(* descending order and returns the candidate and bump of the highest bump  *)
(* whose candidate is off-curve: for seeds within the limits and a          *)
(* well-formed program id, if b is the highest off-curve bump the result is *)
(* bump b and the address hashed from the seeds with b appended, for every  *)
(* b in 0..255, b = 0 included.                                             *)
(***************************************************************************)
BUMPS == 0..U8_MAX

OffCurveBumps(on_curve) == BUMPS \ on_curve

HighestOffCurveBump(on_curve) ==
    CHOOSE b \in OffCurveBumps(on_curve) : \A c \in OffCurveBumps(on_curve) : c <= b

\* seeds that leave room for the bump and respect the length limit
SeedsWithinLimits(seeds) ==
    /\ Len(seeds) < MAX_SEEDS
    /\ \A i \in 1..Len(seeds) : Len(seeds[i]) <= MAX_SEED_LEN

C16_HighestOffCurveBump ==
    (/\ last.op = "find_program_address"
     /\ from_str(last.program).ok
     /\ SeedsWithinLimits(last.seeds)
     /\ OffCurveBumps(last.on_curve) # {})
    => /\ last.status = "Ok"
       /\ last.bump = HighestOffCurveBump(last.on_curve)
       /\ last.address =
              to_string(hash_to_pubkey(Append(last.seeds, <<last.bump>>),
                                       from_str(last.program).bytes))

(***************************************************************************)
(* C17: find_program_address never panics or aborts: with more than 16      *)
(* seeds, with a seed longer than 32 bytes, or when no bump yields an       *)
(* off-curve candidate it returns an error value (InvalidInput in the       *)
(* seed-limit cases); the same holds for find_associated_token_address and  *)
(* for the FFI entry solana_find_program_address.                           *)
(***************************************************************************)
FindOps ==
    {"find_program_address", "find_associated_token_address",
     "solana_find_program_address"}

SeedLimitExceeded(seeds) ==
    \/ Len(seeds) > MAX_SEEDS
    \/ \E i \in 1..Len(seeds) : Len(seeds[i]) > MAX_SEED_LEN

C17_NoPanic ==
    last.op \in FindOps =>
        /\ last.status \notin {"Panic", "Abort"}
        /\ (/\ last.op = "find_program_address"
            /\ from_str(last.program).ok
            /\ SeedLimitExceeded(last.seeds)) => last.status = "InvalidInput"

(***************************************************************************)
(* C19: create_program_address performs exactly one derivation and no bump  *)
(* search: for a well-formed program id and seeds within the limits it      *)
(* returns the candidate hashed from the given seeds when that candidate is *)
(* off-curve and fails with InvalidInput when it is on-curve, never         *)
(* answering with another bump or address.                                  *)
(***************************************************************************)
C19_SingleDerivation ==
    (/\ last.op = "create_program_address"
     /\ from_str(last.program).ok
     /\ ~SeedLimitExceeded(last.seeds))
    => IF bytes_are_curve_point(last.seeds, last.on_curve)
       THEN last.status = "InvalidInput" /\ last.address = <<>>
       ELSE /\ last.status = "Ok"
            /\ last.address =
                   to_string(hash_to_pubkey(last.seeds, from_str(last.program).bytes))

\* the caller's bump 255 gives an on-curve candidate and the call fails,
\* although the search over the same seed would have found bump 254
C19_Witness ==
    /\ last.op = "create_program_address"
    /\ last.program = TP
    /\ last.seeds = <<<<1>>, <<U8_MAX>>>>
    /\ last.on_curve = {U8_MAX}
    /\ last.status = "InvalidInput"
    /\ find_program_address(<<<<1>>>>, TP, {U8_MAX}).bump = U8_MAX - 1

(***************************************************************************)
(* C20: find_associated_token_address(owner, mint) returns exactly the      *)
(* address that find_program_address gives for the seeds [owner bytes,      *)
(* token-program-id bytes, mint bytes], in that order, against the          *)
(* associated-token program id, without the bump; the seed lists with owner *)
(* and mint swapped, or with either swapped with the token program id,      *)
(* give other addresses.                                                    *)
(***************************************************************************)
AtaBySeeds(first, second, third, on_curve) ==
    find_program_address(<<first, second, third>>,
                         to_string(AssociatedTokenProgramBytes), on_curve)

C20_FixedComposition ==
    (/\ last.op = "find_associated_token_address"
     /\ from_str(last.wallet).ok
     /\ from_str(last.mint).ok)
    => LET owner == from_str(last.wallet).bytes
           mint == from_str(last.mint).bytes
           composed == AtaBySeeds(owner, TokenProgramBytes, mint, last.on_curve)
       IN /\ last.status = composed.status
          /\ last.address = composed.address
          /\ last.bump = 0
          /\ (last.status = "Ok" /\ owner # mint) =>
                last.address
                # AtaBySeeds(mint, TokenProgramBytes, owner, last.on_curve).address
          /\ (last.status = "Ok" /\ owner # TokenProgramBytes) =>
                last.address
                # AtaBySeeds(TokenProgramBytes, owner, mint, last.on_curve).address
          /\ (last.status = "Ok" /\ mint # TokenProgramBytes) =>
                last.address
                # AtaBySeeds(owner, mint, TokenProgramBytes, last.on_curve).address

C20_Witness ==
    /\ last.op = "find_associated_token_address"
    /\ last.wallet = T1
    /\ last.mint = T2
    /\ last.on_curve = 129..U8_MAX
    /\ last.status = "Ok"
    /\ last.address = AtaBySeeds(K1, TokenProgramBytes, K2, 129..U8_MAX).address

(***************************************************************************)
(* C21: for every amount of the u64 range, 0 and 2^64 - 1 included,         *)
(* TokenInstructions::transfer yields a payload of exactly 9 bytes whose    *)
(* first byte is 3 and whose bytes 1..8 read as a little-endian u64 give    *)
(* the amount back, without truncation or wrap-around.                      *)
(***************************************************************************)
C21_TransferPayload ==
    (last.op = "transfer" /\ last.status = "Ok") =>
        /\ Len(last.instruction.data) = 9
        /\ last.instruction.data[1] = 3
        /\ \A j \in 2..9 : last.instruction.data[j] \in 0..255
        /\ u64_from_le_bytes(Tail(last.instruction.data)) = last.amount

\* the largest amount, every byte of it set
C21_Witness ==
    /\ last.op = "transfer"
    /\ last.status = "Ok"
    /\ last.amount = U64_MAX
    /\ last.instruction.data = <<3, 255, 255, 255, 255, 255, 255, 255, 255>>

(***************************************************************************)
(* C22: each TokenInstructions function targets the fixed token program id  *)
(* and yields the tabled shape: transfer 3 [source W, destination W,        *)
(* owner S], approve 4 [source W, delegate read-only non-signer, owner S],  *)
(* revoke 5 [source W, owner S], mint_to 7 [mint W, destination W,          *)
(* authority S], burn 8 [account W, mint W, owner S], close_account 9       *)
(* [account W, destination W, owner S]; W is writable non-signer, S is      *)
(* read-only signer, the order is as listed, the payload is 9 bytes where   *)
(* an amount is carried and 1 byte for revoke and close_account.            *)
(***************************************************************************)
W(text) == AccountMeta(from_str(text).bytes, FALSE, TRUE)

S(text) == AccountMeta(from_str(text).bytes, TRUE, FALSE)

ReadOnly(text) == AccountMeta(from_str(text).bytes, FALSE, FALSE)

TabledTag ==
    [transfer |-> 3, approve |-> 4, revoke |-> 5, mint_to |-> 7, burn |-> 8,
     close_account |-> 9]

TokenOps == DOMAIN TabledTag

TabledAccounts(op, t) ==
    IF op = "approve" THEN <<W(t[1]), ReadOnly(t[2]), S(t[3])>>
    ELSE IF op = "revoke" THEN <<W(t[1]), S(t[2])>>
    ELSE <<W(t[1]), W(t[2]), S(t[3])>>

C22_TabledShapes ==
    (last.op \in TokenOps /\ last.status = "Ok") =>
        /\ to_string(last.instruction.program_id) = TOKEN_PROGRAM_ID
        /\ last.instruction.accounts = TabledAccounts(last.op, last.texts)
        /\ last.instruction.data[1] = TabledTag[last.op]
        /\ Len(last.instruction.data) =
               IF last.op \in {"revoke", "close_account"} THEN 1 ELSE 9

C22_Witness ==
    /\ last.op = "approve"
    /\ last.status = "Ok"
    /\ last.texts = <<T1, T2, T3>>
    /\ last.instruction.accounts =
           <<AccountMeta(K1, FALSE, TRUE), AccountMeta(K2, FALSE, FALSE),
             AccountMeta(K3, TRUE, FALSE)>>
    /\ last.instruction.data[1] = 4

(***************************************************************************)
(* C23: build_token_transfer(p, source, destination, owner, amount, c)      *)
(* builds the transaction that build_with_instructions builds from          *)
(* [TokenInstructions::transfer(source, destination, owner, amount)] with   *)
(* owner as fee payer and checkpoint c when p is empty: one instruction,    *)
(* accounts source W, destination W, owner S, payload 3 then the amount as  *)
(* 8 little-endian bytes; with a non-empty valid p the one difference is    *)
(* that the instruction's program is p.                                     *)
(***************************************************************************)
C23_SameAsWithInstructions ==
    (last.op = "build_token_transfer" /\ last.status = "Ok") =>
        \E n \in Amounts :
            LET t == last.texts
                shape == TokenInstructions_transfer(t[2], t[3], t[4], U64(n))
                ix == IF t[1] = EmptyText THEN shape.instruction
                      ELSE [shape.instruction EXCEPT !.program_id = from_str(t[1]).bytes]
                other == build_with_instructions(<<ix>>, t[4], t[5])
            IN /\ shape.status = "Ok"
               /\ other.ok
               /\ tx = other.tx
               /\ Len(tx.message.instructions) = 1
               /\ tx.message.account_keys[1] = from_str(t[4]).bytes
               /\ tx.message.instructions[1].data = <<3>> \o u64_to_le_bytes(U64(n))
               /\ EntryAt(tx.message, tx.message.instructions[1].program_id_index)
                  = IF t[1] = EmptyText THEN TokenProgramBytes ELSE from_str(t[1]).bytes

\* default program, and owner an account of its own
C23_Witness ==
    /\ last.op = "build_token_transfer"
    /\ last.status = "Ok"
    /\ last.texts = <<EmptyText, T1, T2, T3, OkCheckpoint>>
    /\ Len(tx.message.account_keys) = 4
    /\ tx.message.account_keys[1] = K3

(***************************************************************************)
(* C24: whatever add_account and set_data calls are made on an              *)
(* InstructionBuilder, build() returns an instruction whose account list is *)
(* the appended accounts in append order with their flags, not reordered    *)
(* and not deduplicated, and whose payload is the argument of the latest    *)
(* set_data (empty if there was none); build() leaves the builder as it is, *)
(* so a second build() returns an equal instruction.  Stated step by step:  *)
(* new starts with no accounts and no payload, add_account appends its      *)
(* argument at the end and touches nothing else, set_data replaces the      *)
(* payload and touches nothing else, every other call leaves the builder    *)
(* alone, and build() renders the builder's list and payload as they stand. *)
(***************************************************************************)
MetaOf(entry) == AccountMeta(from_str(entry[1]).bytes, entry[2], entry[3])

C24_Step ==
    /\ last'.op = "new" =>
          builder'.accounts = <<>> /\ builder'.data = <<>>
    /\ last'.op = "add_account" =>
          /\ builder'.accounts = Append(builder.accounts, last'.texts[1])
          /\ builder'.data = builder.data
          /\ builder'.program_id = builder.program_id
    /\ last'.op = "set_data" =>
          /\ builder'.data = last'.data
          /\ builder'.accounts = builder.accounts
          /\ builder'.program_id = builder.program_id
    /\ last'.op \notin {"new", "add_account", "set_data"} => builder' = builder
    /\ (last'.op = "build" /\ last'.status = "Ok") =>
          /\ Len(last'.instruction.accounts) = Len(builder.accounts)
          /\ \A i \in 1..Len(builder.accounts) :
                last'.instruction.accounts[i] = MetaOf(builder.accounts[i])
          /\ last'.instruction.data = builder.data

C24_BuildRendersAppended == [][C24_Step]_vars

\* one address appended twice with different flags stays twice, in order
C24_Witness ==
    /\ last.op = "build"
    /\ last.status = "Ok"
    /\ last.instruction.accounts =
           <<AccountMeta(K1, TRUE, FALSE), AccountMeta(K1, FALSE, TRUE)>>
    /\ last.instruction.data = <<1, 2>>

(***************************************************************************)
(* C25: get_fee_estimate on a non-empty builder returns the number of       *)
(* signature slots currently filled with a non-default signature, times     *)
(* 5000, so that the estimate grows as slots are signed; the call does not  *)
(* change the builder's state.                                              *)
(*                                                                          *)
(* As stated (C25_FilledSlotsTimesUnit) this fails: the code counts every   *)
(* slot of the transaction, filled or not.  What holds                      *)
(* (C25_AllSlotsTimesUnit): the estimate is the number of signature slots   *)
(* times 5000, signing does not change it, and the call leaves the builder  *)
(* as it is.                                                                *)
(***************************************************************************)
FilledSlots(t) == {i \in 1..Len(t.signatures) : t.signatures[i] # SignatureDefault}

C25_EstimateStep ==
    /\ last'.op = "get_fee_estimate" => tx' = tx
    /\ (last'.op \in SignOps /\ tx # None /\ tx' # None) =>
          get_fee_estimate(tx').fee = get_fee_estimate(tx).fee

C26_ParseRenderInverse ==
    /\ (last.op = "from_pubkey" /\ from_str(last.arg).ok) =>
          /\ last.status = "Ok"
          /\ account # None
          /\ get_pubkey(account) = Answer("Ok", last.arg)
    /\ (last.op = "get_pubkey" /\ last.status = "Ok") =>
          /\ from_str(last.value).ok
          /\ from_str(last.value).bytes = account.pubkey

\* a text with a leading '1', standing for a leading zero byte
C26_Witness ==
    /\ last.op = "get_pubkey"
    /\ last.status = "Ok"
    /\ Len(last.value) >= 2
    /\ last.value[1] = 0
    /\ last.value[2] # 0
    /\ account.pubkey[1] = 0
    /\ account.keypair = None

(***************************************************************************)
(* C27: every Account, however constructed, satisfies: if secret material   *)
(* is present then an address is present and is the public key derived from *)
(* that secret.  An account built by from_pubkey holds no secret, and       *)
(* get_private_key and get_keypair on it fail with WalletError.             *)
(* from_private_key applied to what get_private_key returned reproduces the *)
(* account's address and secret bytes.                                      *)
(***************************************************************************)
C27_SecretDeterminesAddress ==
    (account # None /\ account.keypair # None) =>
        /\ account.pubkey # None
        /\ account.pubkey = DerivePublic(account.keypair.secret)
        /\ account.keypair.public = account.pubkey

C27_WatchOnly ==
    (last.op = "from_pubkey" /\ last.status = "Ok") =>
        /\ account.keypair = None
        /\ ~has_private_key(account)
        /\ get_private_key(account).status = "WalletError"
        /\ get_keypair(account).status = "WalletError"

C27_Step ==
    /\ (last.op = "from_pubkey" /\ last.status = "Ok"
            /\ last'.op \in {"get_private_key", "get_keypair"}) =>
          last'.status = "WalletError"
    /\ (last.op = "get_private_key" /\ last.status = "Ok"
            /\ last'.op = "from_private_key" /\ last'.arg = last.value) =>
          /\ last'.status = "Ok"
          /\ account' = account
          /\ get_private_key(account') = Answer("Ok", last.value)

C27_AccountInvariant ==
    /\ [](C27_SecretDeterminesAddress /\ C27_WatchOnly)
    /\ [][C27_Step]_vars

\* an account imported from the bytes another account exported
C27_Witness ==
    /\ last.op = "from_private_key"
    /\ last.status = "Ok"
    /\ account.keypair # None
    /\ get_private_key(account).value = last.arg
    /\ get_pubkey(account).value = to_string(DerivePublic(SecretOf(2)))

(***************************************************************************)
(* C28: the builder follows Empty -> Built -> PartiallySigned ->            *)
(* FullySigned: in every state other than Empty serialize succeeds, and no  *)
(* sign, sign_with_keypairs, serialize, get_fee_estimate, or failed build_* *)
(* or from_serialized call takes a builder that has left Empty back to      *)
(* Empty.                                                                   *)
(***************************************************************************)
C28_SerializeOutsideEmpty ==
    /\ tx # None => serialize(tx).status = "Ok"
    /\ (last.op = "serialize" /\ last.before # "Empty") => last.status = "Ok"

C28_KeepsOutOfEmpty ==
    (/\ tx # None
     /\ \/ last'.op \in SignOps \cup {"serialize", "get_fee_estimate"}
        \/ last'.op \in BuildOps \cup {"from_serialized"} /\ last'.status # "Ok")
    => tx' # None

C28_NeverBackToEmpty ==
    /\ []C28_SerializeOutsideEmpty
    /\ [][C28_KeepsOutOfEmpty]_vars

(***************************************************************************)
(* C29: a successful sign or sign_with_keypairs changes only the signature  *)
(* slots of the accounts whose keys were supplied: the account table, the   *)
(* instruction list and the checkpoint are unchanged, and every slot of     *)
(* another signer keeps its exact value.  So for a partially signed         *)
(* transaction loaded with from_serialized, signing with the remaining      *)
(* signer's key gives a transaction that still carries the earlier          *)
(* signature byte for byte.                                                 *)
(***************************************************************************)
SuppliedKeys(keys) == {Keypair_from_bytes(keys[i]).public : i \in 1..Len(keys)}

C29_Step ==
    (last'.op \in SignOps /\ last'.status = "Ok" /\ tx # None) =>
        /\ tx' # None
        /\ tx'.message = tx.message
        /\ Len(tx'.signatures) = Len(tx.signatures)
        /\ \A i \in 1..Len(tx.signatures) :
              tx.message.account_keys[i] \notin SuppliedKeys(last'.keys) =>
                  tx'.signatures[i] = tx.signatures[i]

C29_LoadedThenSigned ==
    (/\ last.op = "from_serialized" /\ last.status = "Ok"
     /\ BuilderState(tx) = "PartiallySigned"
     /\ last'.op = "sign" /\ last'.status = "Ok") =>
        \A i \in SignerSlots(tx) :
            SlotFilled(tx, i) =>
                /\ tx'.signatures[i] = tx.signatures[i]
                /\ serialize(tx').status = "Ok"
                /\ bincode_deserialize(serialize(tx').bytes).val.signatures[i]
                       = tx.signatures[i]

C29_OtherSlotsKept == [][C29_Step /\ C29_LoadedThenSigned]_vars

\* the other party's signature is still in its slot after the remaining
\* signer has signed the loaded transaction
C29_Witness ==
    /\ last.op = "sign"
    /\ last.status = "Ok"
    /\ last.before = "PartiallySigned"
    /\ BuilderState(tx) = "FullySigned"
    /\ \E f \in ForeignTxs : \E i \in SignerSlots(tx) :
          /\ tx.message = f.message
          /\ SlotFilled(f, i)
          /\ tx.signatures[i] = f.signatures[i]
          /\ tx.message.account_keys[i] \notin SuppliedKeys(last.keys)

(***************************************************************************)
(* C30: find_program_address and create_program_address agree.  Whenever    *)
(* find_program_address(seeds, program) returns (address, bump),            *)
(* create_program_address(seeds followed by the one-byte seed [bump],       *)
(* program) succeeds and returns the same address, and for every            *)
(* bump' > bump create_program_address(seeds followed by [bump'], program)  *)
(* fails.                                                                   *)
(***************************************************************************)
WithBump(seeds, bump) == Append(seeds, <<bump>>)

C30_Found ==
    (last.op = "find_program_address" /\ last.status = "Ok") =>
        /\ create_program_address(WithBump(last.seeds, last.bump), last.program,
                                  last.on_curve)
               = PdaResult("Ok", last.address, 0)
        /\ \A higher \in (last.bump + 1)..U8_MAX :
               create_program_address(WithBump(last.seeds, higher), last.program,
                                      last.on_curve).status # "Ok"

C30_Step ==
    (/\ last.op = "find_program_address" /\ last.status = "Ok"
     /\ last'.op = "create_program_address"
     /\ last'.program = last.program
     /\ last'.on_curve = last.on_curve
     /\ \E b \in last.bump..U8_MAX : last'.seeds = WithBump(last.seeds, b))
    => IF last'.seeds = WithBump(last.seeds, last.bump)
       THEN last'.status = "Ok" /\ last'.address = last.address
       ELSE last'.status # "Ok"

C30_FindCreateAgree == []C30_Found /\ [][C30_Step]_vars

\* the search passed 55 on-curve bumps and stopped at 200; the derivation
\* with that bump as the last seed gives the address the search returned
C30_Witness ==
    /\ last.op = "create_program_address"
    /\ last.status = "Ok"
    /\ last.seeds = WithBump(<<<<1>>>>, 200)
    /\ last.on_curve = (0..U8_MAX) \ {7, 200}
    /\ find_program_address(<<<<1>>>>, last.program, last.on_curve)
           = PdaResult("Ok", last.address, 200)

====
